---- MODULE Spec2Model ----
(***************************************************************************)
(* Model of the schema normalizer / flattener of OAS3-Tools:               *)
(*   src/extract_schema_to_csv.py   resolve_json_pointer, merge_enums,     *)
(*                                  conservative_merge, SchemaWalker       *)
(*   src/oas3_data_dictionary_agent.py  merge_schemas, expand_combinators  *)
(*                                                                         *)
(* Python values are modelled as tagged pairs <<t, v>> (x[1] the type):    *)
(*   str  : v is the sequence of the string's characters                  *)
(*   int  : v is the integer          bool : v is TRUE / FALSE             *)
(*   null : None                      list : v is the sequence of items    *)
(*   dict : v is the sequence of <<key, value>> pairs in insertion order,  *)
(*          keys being character sequences, no key twice                   *)
(*   raise: a raised exception, v = <<class name, message>>                *)
(* deepcopy is the identity on these values (they are immutable here).     *)
(***************************************************************************)
EXTENDS Integers, Sequences, FiniteSets, TLC

VARIABLES
  op,         \* the call that produced ret ("init" before any call)
  a, b,       \* conservative_merge(a, b): its two arguments
  doc,        \* resolve_json_pointer(doc, pointer) / expand_combinators(doc, schema)
  pointer,
  root,       \* SchemaWalker.root
  ref_cache,  \* SchemaWalker.ref_cache
  schema,     \* the schema argument of deref / flatten_composites / iter_elements
  base_path,  \* the base_path argument of iter_elements
  raw_rows,   \* the rows given to dedupe_rows
  ret,        \* the value returned (or the exception raised) by the call
  tool,       \* the command-line tool that runs
  base_dir,   \* what its directory argument names: "dir", "file" or "missing"
  entries,    \* the entries of that directory, in the order iterdir gives them
  files,      \* main of batch_oas3_agent: files
  file_idx,   \* main of batch_oas3_agent: the position of "for file in files"
  any_failed, \* main of batch_oas3_agent: any_failed
  generated_outputs,  \* main of batch_oas3_agent: generated_outputs
  subprocesses,       \* the subprocess.run calls so far, each with its outcome
  exit_status,        \* the exit status of the tool (-1 while it runs)
  used_sheet_names,   \* main of merge_dir_to_tabs: used_sheet_names
  sheetnames,         \* main of merge_dir_to_tabs: the names in dfs_and_names
  sheet_base,         \* dedupe_sheet_name: name
  suffix_i            \* dedupe_sheet_name: i

tab_vars == <<used_sheet_names, sheetnames, sheet_base, suffix_i>>

cli_vars ==
  <<tool, base_dir, entries, files, file_idx, any_failed, generated_outputs,
    subprocesses, exit_status, tab_vars>>

vars ==
  <<op, a, b, doc, pointer, root, ref_cache, schema, base_path, raw_rows, ret, cli_vars>>

(***************************************************************************)
(* Bounds of the model.                                                    *)
(***************************************************************************)
\* longest required list of a generated fragment
MaxRequired == 2
\* most branches of a generated allOf / anyOf / oneOf
MaxBranches == 2
\* most segments of a generated JSON pointer
MaxSegments == 2
\* most properties of a generated object schema
MaxProps == 2
\* the longest list of rows given to dedupe_rows
MaxRows == 3
\* most entries of the directory given to a command-line tool
MaxEntries == 2
\* most files merge_dir_to_tabs finds
MaxTabs == 3
\* nested recursive calls allowed before RecursionError (Python's recursion limit, scaled)
RecursionLimit == 4

(***************************************************************************)
(* Values                                                                  *)
(***************************************************************************)
PyStr(s) == <<"str", s>>
PyInt(n) == <<"int", n>>
PyBool(x) == <<"bool", x>>
None == <<"null", 0>>
PyList(xs) == <<"list", xs>>
PyDict(kvs) == <<"dict", kvs>>
\* a raised exception: its class and its message (the text before any argument)
RaiseMsg(cls, msg) == <<"raise", <<cls, msg>>>>
Raise(cls) == RaiseMsg(cls, "")

IsDict(x) == x[1] = "dict"
IsList(x) == x[1] = "list"
IsStr(x) == x[1] = "str"
IsRaise(x) == x[1] = "raise"

\* bool(x): Python truthiness
Truthy(x) ==
  CASE x[1] = "null" -> FALSE
    [] x[1] = "bool" -> x[2]
    [] x[1] = "int" -> x[2] # 0
    [] OTHER -> Len(x[2]) > 0

(***************************************************************************)
(* Strings: character sequences, ordered by code point.                    *)
(***************************************************************************)
Alphabet ==
  << " ", "\"", "#", "$", "*", ",", "-", ".", "/",
     "0", "1", "2", "3", "4", "5", "6", "7", "8", "9", ":",
     "A", "B", "C", "D", "E", "F", "G", "H", "I", "J", "K", "L", "M",
     "N", "O", "P", "Q", "R", "S", "T", "U", "V", "W", "X", "Y", "Z",
     "[", "]",
     "a", "b", "c", "d", "e", "f", "g", "h", "i", "j", "k", "l", "m",
     "n", "o", "p", "q", "r", "s", "t", "u", "v", "w", "x", "y", "z",
     "{", "}", "~" >>

Ord(c) == CHOOSE i \in 1..Len(Alphabet) : Alphabet[i] = c

RECURSIVE StrLess(_, _)
\* s < t for Python strings
StrLess(s, t) ==
  IF t = <<>> THEN FALSE
  ELSE IF s = <<>> THEN TRUE
  ELSE IF Head(s) = Head(t) THEN StrLess(Tail(s), Tail(t))
  ELSE Ord(Head(s)) < Ord(Head(t))

StartsWith(s, p) == Len(s) >= Len(p) /\ SubSeq(s, 1, Len(p)) = p
EndsWith(s, p) == Len(s) >= Len(p) /\ SubSeq(s, Len(s) - Len(p) + 1, Len(s)) = p
Contains(s, c) == \E i \in 1..Len(s) : s[i] = c

RECURSIVE Split(_, _)
\* s.split(sep) for a one-character sep: the pieces between the separators
Split(s, sep) ==
  IF ~Contains(s, sep) THEN <<s>>
  ELSE LET i == CHOOSE j \in 1..Len(s) :
                  s[j] = sep /\ \A k \in 1..(j - 1) : s[k] # sep
       IN <<SubSeq(s, 1, i - 1)>> \o Split(SubSeq(s, i + 1, Len(s)), sep)

RECURSIVE LStrip(_, _)
\* s.lstrip(chars): drops every leading character that belongs to chars
LStrip(s, chars) ==
  IF s # <<>> /\ Head(s) \in chars THEN LStrip(Tail(s), chars) ELSE s

RECURSIVE Replace2(_, _, _, _)
\* s.replace(c1 + c2, r): left to right, non-overlapping
Replace2(s, c1, c2, r) ==
  IF Len(s) < 2 THEN s
  ELSE IF s[1] = c1 /\ s[2] = c2
       THEN r \o Replace2(SubSeq(s, 3, Len(s)), c1, c2, r)
       ELSE <<s[1]>> \o Replace2(Tail(s), c1, c2, r)

Digits == <<"0", "1", "2", "3", "4", "5", "6", "7", "8", "9">>
IsDigit(c) == \E i \in 1..10 : Digits[i] = c
DigitVal(c) == (CHOOSE i \in 1..10 : Digits[i] = c) - 1

RECURSIVE DigitsVal(_, _)
DigitsVal(s, acc) ==
  IF s = <<>> THEN acc ELSE DigitsVal(Tail(s), acc * 10 + DigitVal(Head(s)))

RECURSIVE IntToStr(_)
\* str(n) for n >= 0
IntToStr(n) ==
  IF n < 10 THEN <<Digits[n + 1]>> ELSE IntToStr(n \div 10) \o <<Digits[(n % 10) + 1]>>

(***************************************************************************)
(* Schema keywords and other literals of the source.                       *)
(***************************************************************************)
k_ref == <<"$", "r", "e", "f">>
k_allOf == <<"a", "l", "l", "O", "f">>
k_anyOf == <<"a", "n", "y", "O", "f">>
k_oneOf == <<"o", "n", "e", "O", "f">>
k_enum == <<"e", "n", "u", "m">>
k_required == <<"r", "e", "q", "u", "i", "r", "e", "d">>
k_properties == <<"p", "r", "o", "p", "e", "r", "t", "i", "e", "s">>
k_items == <<"i", "t", "e", "m", "s">>
k_additionalProperties ==
  <<"a", "d", "d", "i", "t", "i", "o", "n", "a", "l",
    "P", "r", "o", "p", "e", "r", "t", "i", "e", "s">>
k_type == <<"t", "y", "p", "e">>
k_description == <<"d", "e", "s", "c", "r", "i", "p", "t", "i", "o", "n">>
k_x_internal == <<"x", "-", "i", "n", "t", "e", "r", "n", "a", "l">>
k_pattern == <<"p", "a", "t", "t", "e", "r", "n">>
k_minLength == <<"m", "i", "n", "L", "e", "n", "g", "t", "h">>
k_maxLength == <<"m", "a", "x", "L", "e", "n", "g", "t", "h">>
k_minimum == <<"m", "i", "n", "i", "m", "u", "m">>
k_maximum == <<"m", "a", "x", "i", "m", "u", "m">>
k_exclusiveMinimum ==
  <<"e", "x", "c", "l", "u", "s", "i", "v", "e", "M", "i", "n", "i", "m", "u", "m">>
k_exclusiveMaximum ==
  <<"e", "x", "c", "l", "u", "s", "i", "v", "e", "M", "a", "x", "i", "m", "u", "m">>
k_multipleOf == <<"m", "u", "l", "t", "i", "p", "l", "e", "O", "f">>
k_minItems == <<"m", "i", "n", "I", "t", "e", "m", "s">>
k_maxItems == <<"m", "a", "x", "I", "t", "e", "m", "s">>
k_uniqueItems == <<"u", "n", "i", "q", "u", "e", "I", "t", "e", "m", "s">>
k_format == <<"f", "o", "r", "m", "a", "t">>
k_default == <<"d", "e", "f", "a", "u", "l", "t">>
k_example == <<"e", "x", "a", "m", "p", "l", "e">>
k_const == <<"c", "o", "n", "s", "t">>
k_title == <<"t", "i", "t", "l", "e">>
k_string == <<"s", "t", "r", "i", "n", "g">>
k_integer == <<"i", "n", "t", "e", "g", "e", "r">>
k_object == <<"o", "b", "j", "e", "c", "t">>
k_array == <<"a", "r", "r", "a", "y">>

(***************************************************************************)
(* dict and list operations                                                *)
(***************************************************************************)
Keys(d) == {d[2][i][1] : i \in 1..Len(d[2])}
\* k in d
Has(d, k) == \E i \in 1..Len(d[2]) : d[2][i][1] = k
\* d[k], for k in d
Get(d, k) == d[2][CHOOSE i \in 1..Len(d[2]) : d[2][i][1] = k][2]
\* d.get(k, dflt)
GetOr(d, k, dflt) == IF Has(d, k) THEN Get(d, k) ELSE dflt
\* d[k] = x: an existing key keeps its place, a new key goes last
Put(d, k, x) ==
  IF Has(d, k)
  THEN PyDict([i \in 1..Len(d[2]) |-> IF d[2][i][1] = k THEN <<k, x>> ELSE d[2][i]])
  ELSE PyDict(Append(d[2], <<k, x>>))

RECURSIVE SelectPairs(_, _)
\* {k: v for k, v in d.items() if k in keep}, as a pair sequence
SelectPairs(kvs, keep) ==
  IF kvs = <<>> THEN <<>>
  ELSE (IF Head(kvs)[1] \in keep THEN <<Head(kvs)>> ELSE <<>>)
       \o SelectPairs(Tail(kvs), keep)

RECURSIVE PyEq(_, _)
\* x == y in Python: dicts compare as mappings (order-free), True == 1, False == 0
PyEq(x, y) ==
  LET num(z) == IF z[1] = "bool" THEN (IF z[2] THEN 1 ELSE 0) ELSE z[2]
  IN CASE x[1] \in {"int", "bool"} /\ y[1] \in {"int", "bool"} -> num(x) = num(y)
       [] x[1] # y[1] -> FALSE
       [] x[1] = "list" ->
            /\ Len(x[2]) = Len(y[2])
            /\ \A i \in 1..Len(x[2]) : PyEq(x[2][i], y[2][i])
       [] x[1] = "dict" ->
            /\ Keys(x) = Keys(y)
            /\ \A k \in Keys(x) : PyEq(Get(x, k), Get(y, k))
       [] OTHER -> x[2] = y[2]

\* whether hash(x) succeeds (set membership needs it)
Hashable(x) == x[1] \in {"str", "int", "bool", "null"}

RECURSIVE Dumps(_)
RECURSIVE DumpsItems(_, _)
\* the items of a list (pairs = FALSE) or of a dict (pairs = TRUE), joined by ", "
DumpsItems(xs, pairs) ==
  IF xs = <<>> THEN <<>>
  ELSE (IF pairs THEN <<"\"">> \o Head(xs)[1] \o <<"\"", ":", " ">> \o Dumps(Head(xs)[2])
        ELSE Dumps(Head(xs)))
       \o (IF Len(xs) > 1 THEN <<",", " ">> ELSE <<>>)
       \o DumpsItems(Tail(xs), pairs)

\* json.dumps(x, ensure_ascii=False) (the characters of the model's alphabet
\* need no escape)
Dumps(x) ==
  CASE x[1] = "str" -> <<"\"">> \o x[2] \o <<"\"">>
    [] x[1] = "int" -> IF x[2] < 0 THEN <<"-">> \o IntToStr(-x[2]) ELSE IntToStr(x[2])
    [] x[1] = "bool" -> IF x[2] THEN <<"t", "r", "u", "e">> ELSE <<"f", "a", "l", "s", "e">>
    [] x[1] = "null" -> <<"n", "u", "l", "l">>
    [] x[1] = "list" -> <<"[">> \o DumpsItems(x[2], FALSE) \o <<"]">>
    [] x[1] = "dict" -> <<"{">> \o DumpsItems(x[2], TRUE) \o <<"}">>

(***************************************************************************)
(* JSON Pointer resolver (supports arrays)                                 *)
(***************************************************************************)
\* whether int(s) succeeds: an optional sign and at least one digit
IsIntLiteral(s) ==
  LET d == IF s # <<>> /\ Head(s) = "-" THEN Tail(s) ELSE s
  IN d # <<>> /\ \A i \in 1..Len(d) : IsDigit(d[i])
\* int(s)
ParseInt(s) == IF Head(s) = "-" THEN 0 - DigitsVal(Tail(s), 0) ELSE DigitsVal(s, 0)

\* part.replace("~1", "/").replace("~0", "~")
Unescape(part) == Replace2(Replace2(part, "~", "1", <<"/">>), "~", "0", <<"~">>)

RECURSIVE Descend(_, _)
\* the loop of resolve_json_pointer over parts, from cur
Descend(cur, parts) ==
  IF parts = <<>> THEN cur
  ELSE LET part == Unescape(Head(parts))
       IN IF IsDict(cur)
          THEN IF Has(cur, part) THEN Descend(Get(cur, part), Tail(parts))
               ELSE RaiseMsg("KeyError", "JSON pointer not found")
          ELSE IF IsList(cur)
          THEN IF ~IsIntLiteral(part)
               THEN RaiseMsg("KeyError", "JSON pointer expected integer index for array")
               ELSE IF 0 <= ParseInt(part) /\ ParseInt(part) < Len(cur[2])
                    THEN Descend(cur[2][ParseInt(part) + 1], Tail(parts))
                    ELSE RaiseMsg("KeyError", "JSON pointer array index out of range")
          ELSE RaiseMsg("KeyError", "JSON pointer cannot descend into non-container")

\* resolve_json_pointer(doc, pointer)
resolve_json_pointer(d, p) ==
  IF ~StartsWith(p, <<"#">>)
  THEN RaiseMsg("ValueError", "Only local refs are supported. Pointer must start with '#'.")
  ELSE IF p = <<"#">> THEN d
  ELSE Descend(d, Split(LStrip(p, {"#", "/"}), "/"))

(***************************************************************************)
(* Python sets and sorting.  A set is kept as the sequence of its members  *)
(* in insertion order; a member equal (==) to an earlier one is not added. *)
(***************************************************************************)
RECURSIVE SetUpdate(_, _)
\* s.update(xs)
SetUpdate(s, xs) ==
  IF xs = <<>> THEN s
  ELSE SetUpdate(IF \E i \in 1..Len(s) : PyEq(s[i], Head(xs))
                 THEN s ELSE Append(s, Head(xs)),
                 Tail(xs))

RECURSIVE InsertSorted(_, _)
\* one step of a stable sort of <<key, value>> pairs by string key
InsertSorted(sorted, kv) ==
  IF sorted = <<>> THEN <<kv>>
  ELSE IF StrLess(kv[1], Head(sorted)[1]) THEN <<kv>> \o sorted
  ELSE <<Head(sorted)>> \o InsertSorted(Tail(sorted), kv)

RECURSIVE SortPairs(_)
SortPairs(kvs) ==
  IF kvs = <<>> THEN <<>>
  ELSE InsertSorted(SortPairs(SubSeq(kvs, 1, Len(kvs) - 1)), kvs[Len(kvs)])

\* sorted(xs, key=lambda x: json.dumps(x, ensure_ascii=False))
SortedByDumps(xs) ==
  LET s == SortPairs([i \in 1..Len(xs) |-> <<Dumps(xs[i]), xs[i]>>])
  IN [i \in 1..Len(s) |-> s[i][2]]

\* sorted(xs) for a sequence of str values
SortedStrs(xs) ==
  LET s == SortPairs([i \in 1..Len(xs) |-> <<xs[i][2], xs[i]>>])
  IN [i \in 1..Len(s) |-> s[i][2]]

(***************************************************************************)
(* Constraint merge helpers                                                *)
(***************************************************************************)
CONSTRAINT_KEYS ==
  { k_pattern, k_minLength, k_maxLength, k_minimum, k_maximum,
    k_exclusiveMinimum, k_exclusiveMaximum, k_multipleOf, k_minItems,
    k_maxItems, k_uniqueItems, k_format, k_enum, k_default, k_example,
    k_const, k_required }
TYPE_KEYS == {k_type}
TITLE_DESC_KEYS == {k_description, k_x_internal}
PROPERTIES_KEYS == {k_properties, k_items, k_additionalProperties}

\* merge_enums(values): the union of the list-valued entries as a list, None when
\* it is empty; an unhashable member raises TypeError
merge_enums(values) ==
  LET lists == SelectSeq(values, IsList)
      s == IF Len(lists) = 0 THEN <<>>
           ELSE IF Len(lists) = 1 THEN SetUpdate(<<>>, lists[1][2])
           ELSE SetUpdate(SetUpdate(<<>>, lists[1][2]), lists[2][2])
  IN IF \E i \in 1..Len(lists) : \E j \in 1..Len(lists[i][2]) : ~Hashable(lists[i][2][j])
     THEN Raise("TypeError")
     ELSE IF s # <<>> THEN PyList(s) ELSE None

\* set(x or []) for a required value: None and [] give the empty set; the
\* members of a required list are strings
RequiredSet(x) ==
  IF ~Truthy(x) THEN PyList(<<>>)
  ELSE IF IsList(x) /\ \A i \in 1..Len(x[2]) : IsStr(x[2][i])
       THEN PyList(SetUpdate(<<>>, x[2]))
       ELSE Raise("TypeError")

\* MergeItem with the overlay's value replacing the one already in out
MergeItem_OverlayWins(out, k, v) ==
  IF ~IsDict(out) THEN Raise("TypeError")
  ELSE IF k \in {k_enum, k_required} /\ Has(out, k) THEN out
  ELSE Put(out, k, v)

\* MergeItem with the overlay's required names appended to the ones in out
MergeItem_AppendRequired(out, k, v) ==
  IF ~IsDict(out) THEN Raise("TypeError")
  ELSE IF k = k_required /\ Has(out, k) /\ IsList(Get(out, k)) /\ IsList(v)
  THEN Put(out, k, PyList(Get(out, k)[2] \o v[2]))
  ELSE IF Has(out, k) THEN out
  ELSE Put(out, k, v)

\* MergeItem with the overlay's enum values appended to the ones in out
MergeItem_ConcatEnum(out, k, v) ==
  IF ~IsDict(out) THEN Raise("TypeError")
  ELSE IF k = k_enum /\ Has(out, k) /\ IsList(Get(out, k)) /\ IsList(v)
  THEN Put(out, k, PyList(Get(out, k)[2] \o v[2]))
  ELSE IF k = k_required /\ Has(out, k) /\ IsList(Get(out, k)) /\ IsList(v)
  THEN Put(out, k, PyList(SortedStrs(SetUpdate(Get(out, k)[2], v[2]))))
  ELSE IF Has(out, k) THEN out
  ELSE Put(out, k, v)

\* the body of conservative_merge's loop for one item (k, v) of b
MergeItem(out, k, v) ==
  IF ~IsDict(out)
  THEN Raise(IF k \in {k_enum, k_required} THEN "AttributeError" ELSE "TypeError")
  ELSE IF k = k_enum
  THEN LET merged == merge_enums(<<GetOr(out, k_enum, None), v>>)
       IN IF IsRaise(merged) THEN merged
          ELSE IF merged # None THEN Put(out, k_enum, PyList(SortedByDumps(merged[2])))
          ELSE out
  ELSE IF k = k_required
  THEN LET ra == RequiredSet(GetOr(out, k_required, PyList(<<>>)))
           rb == RequiredSet(v)
       IN IF IsRaise(ra) THEN ra
          ELSE IF IsRaise(rb) THEN rb
          ELSE IF Truthy(ra) \/ Truthy(rb)
               THEN Put(out, k_required, PyList(SortedStrs(SetUpdate(ra[2], rb[2]))))
               ELSE out
  ELSE IF ~Has(out, k) THEN Put(out, k, v)
  ELSE out  \* keep existing; do not guess reconciliation

RECURSIVE MergeItems(_, _)
\* for k, v in b.items(): ...
MergeItems(out, items) ==
  IF items = <<>> \/ IsRaise(out) THEN out
  ELSE MergeItems(MergeItem(out, Head(items)[1], Head(items)[2]), Tail(items))

\* conservative_merge(a, b)
conservative_merge(x, y) ==
  IF ~IsDict(y) THEN Raise("AttributeError") ELSE MergeItems(x, y[2])

(***************************************************************************)
(* Schema walker.  self is the SchemaWalker object [root, ref_cache]; a    *)
(* method returns [val, self]: its value (or the exception it raises) and  *)
(* the walker as the call leaves it.  The methods call one another only    *)
(* downwards (iter_elements, _walk, flatten_composites, deref), so every   *)
(* unbounded recursion is a method calling itself: depth counts those      *)
(* calls, and one nested deeper than RecursionLimit raises RecursionError. *)
(***************************************************************************)
RV(val, self) == [val |-> val, self |-> self]

\* SchemaWalker(root)
SchemaWalker(rt) == [root |-> rt, ref_cache |-> PyDict(<<>>)]

\* "$ref" in schema, for a schema that is a list or a string
RefInNonDict(s) ==
  IF IsList(s) THEN \E i \in 1..Len(s[2]) : PyEq(s[2][i], PyStr(k_ref))
  ELSE \E i \in 1..Len(s[2]) : i + 3 <= Len(s[2]) /\ SubSeq(s[2], i, i + 3) = k_ref

RECURSIVE deref(_, _, _)

\* DerefMerge, were it to store the dereferenced target in the document
\* (under the key ref) instead of the cache
DerefMerge_StoresInRoot(ref, siblings, base, cached) ==
  IF IsRaise(base.val) THEN base
  ELSE RV(conservative_merge(base.val, siblings),
          IF cached THEN base.self
          ELSE [base.self EXCEPT !.root = Put(@, ref, base.val)])

\* DerefMerge, were the cache entry the merged result instead of base
DerefMerge_CachesMerged(ref, siblings, base, cached) ==
  IF IsRaise(base.val) THEN base
  ELSE RV(conservative_merge(base.val, siblings),
          IF cached \/ IsRaise(conservative_merge(base.val, siblings)) THEN base.self
          ELSE [base.self EXCEPT
                  !.ref_cache = Put(@, ref, conservative_merge(base.val, siblings))])

\* deref: return conservative_merge(base, siblings), after the cache entry of
\* ref is written when base did not come from the cache
DerefMerge(ref, siblings, base, cached) ==
  IF IsRaise(base.val) THEN base
  ELSE RV(conservative_merge(base.val, siblings),
          IF cached THEN base.self
          ELSE [base.self EXCEPT !.ref_cache = Put(@, ref, base.val)])

\* deref: base for a target that was resolved (or the exception of resolving)
DerefTarget(self, target, depth) ==
  IF IsDict(target) THEN deref(self, target, depth + 1) ELSE RV(target, self)

\* deref of a mapping with "$ref": ref and the other keys siblings
DerefRef(self, ref, siblings, depth) ==
  IF ~IsStr(ref)
  THEN RV(Raise(IF Hashable(ref) THEN "AttributeError" ELSE "TypeError"), self)
  ELSE DerefMerge(ref[2], siblings,
                  IF Has(self.ref_cache, ref[2])
                  THEN RV(Get(self.ref_cache, ref[2]), self)
                  ELSE DerefTarget(self, resolve_json_pointer(self.root, ref[2]), depth),
                  Has(self.ref_cache, ref[2]))

\* SchemaWalker.deref(schema)
deref(self, s, depth) ==
  IF depth > RecursionLimit THEN RV(Raise("RecursionError"), self)
  ELSE IF ~IsDict(s)
  THEN IF s[1] \in {"list", "str"} /\ ~RefInNonDict(s) THEN RV(s, self)
       ELSE RV(Raise("TypeError"), self)
  ELSE IF ~Has(s, k_ref) THEN RV(s, self)
  ELSE DerefRef(self, Get(s, k_ref), PyDict(SelectPairs(s[2], Keys(s) \ {k_ref})), depth)

\* the keys of a composite branch that are merged
BranchKeys == CONSTRAINT_KEYS \cup TYPE_KEYS \cup TITLE_DESC_KEYS \cup PROPERTIES_KEYS

RECURSIVE flatten_composites(_, _, _)
RECURSIVE FlattenBranches(_, _, _, _)
RECURSIVE FlattenKeys(_, _, _, _)

\* flatten_composites: merged = conservative_merge(...) gave m; the subs left
FlattenNext(self, m, subs, depth) ==
  IF IsRaise(m) THEN RV(m, self) ELSE FlattenBranches(self, subs, m, depth)

\* flatten_composites: sub was flattened to f; its branch keys go into merged
FlattenMerge(f, subs, merged, depth) ==
  IF IsRaise(f.val) THEN f
  ELSE IF ~IsDict(f.val) THEN RV(Raise("AttributeError"), f.self)
  ELSE FlattenNext(f.self,
                   conservative_merge(merged, PyDict(SelectPairs(f.val[2], BranchKeys))),
                   subs, depth)

\* flatten_composites: sub was dereferenced to d; it is flattened
FlattenSub(d, subs, merged, depth) ==
  IF IsRaise(d.val) THEN d
  ELSE FlattenMerge(flatten_composites(d.self, d.val, depth + 1), subs, merged, depth)

\* flatten_composites: the loop "for sub in schema[key]", merged so far
FlattenBranches(self, subs, merged, depth) ==
  IF subs = <<>> THEN RV(merged, self)
  ELSE FlattenSub(deref(self, Head(subs), depth), Tail(subs), merged, depth)

\* flatten_composites: schema = conservative_merge(schema, merged) gave m
FlattenKeyNext(self, m, keys, depth) ==
  IF IsRaise(m) THEN RV(m, self) ELSE FlattenKeys(self, m, keys, depth)

\* flatten_composites: the branches of one key were merged to br
FlattenKeyMerge(br, s, keys, depth) ==
  IF IsRaise(br.val) THEN br
  ELSE FlattenKeyNext(br.self, conservative_merge(s, br.val), keys, depth)

\* flatten_composites: the loop "for key in (allOf, anyOf, oneOf)"
FlattenKeys(self, s, keys, depth) ==
  IF keys = <<>> THEN RV(s, self)
  ELSE IF IsDict(s) /\ Has(s, Head(keys)) /\ IsList(Get(s, Head(keys)))
  THEN FlattenKeyMerge(FlattenBranches(self, Get(s, Head(keys))[2], PyDict(<<>>), depth),
                       s, Tail(keys), depth)
  ELSE FlattenKeys(self, s, Tail(keys), depth)

\* flatten_composites, were it to normalise the dereferenced schema with
\* conservative_merge({}, schema) before its loop
FlattenDerefed_Normalises(d, depth) ==
  IF IsRaise(d.val) THEN d
  ELSE FlattenKeyNext(d.self, conservative_merge(PyDict(<<>>), d.val),
                      <<k_allOf, k_anyOf, k_oneOf>>, depth)

\* FlattenDerefed, were the composites taken in the order oneOf, anyOf, allOf
FlattenDerefed_OneOfFirst(d, depth) ==
  IF IsRaise(d.val) THEN d
  ELSE FlattenKeys(d.self, d.val, <<k_oneOf, k_anyOf, k_allOf>>, depth)

\* flatten_composites after schema = self.deref(schema)
FlattenDerefed(d, depth) ==
  IF IsRaise(d.val) THEN d
  ELSE FlattenKeys(d.self, d.val, <<k_allOf, k_anyOf, k_oneOf>>, depth)

\* SchemaWalker.flatten_composites(schema)
flatten_composites(self, s, depth) ==
  IF depth > RecursionLimit THEN RV(Raise("RecursionError"), self)
  ELSE FlattenDerefed(deref(self, s, depth), depth)

\* the columns of a record that are not schema keywords, and the flag "true"
c_leaf_element == <<"l", "e", "a", "f", " ", "e", "l", "e", "m", "e", "n", "t">>
c_path == <<"p", "a", "t", "h">>
c_min == <<"m", "i", "n">>
c_max == <<"m", "a", "x">>
c_true == <<"t", "r", "u", "e">>

\* as_csv_value(v)
as_csv_value(x) ==
  CASE x[1] = "null" -> <<>>
    [] x[1] \in {"dict", "list"} -> Dumps(x)
    [] x[1] = "str" -> x[2]
    [] x[1] = "bool" -> IF x[2] THEN <<"T", "r", "u", "e">> ELSE <<"F", "a", "l", "s", "e">>
    [] x[1] = "int" -> IF x[2] < 0 THEN <<"-">> \o IntToStr(-x[2]) ELSE IntToStr(x[2])

\* x[:-2]
DropLast2(x) == SubSeq(x, 1, Len(x) - 2)

\* _make_record: the name looked up in the parent's required list
ThisBaseName(path) ==
  LET this_name == Split(path, ".")[Len(Split(path, "."))]
  IN IF EndsWith(this_name, <<"[", "]">>) THEN DropLast2(this_name)
     ELSE IF EndsWith(this_name, <<".", "*">>) THEN DropLast2(this_name)
     ELSE IF Contains(this_name, "[") THEN <<>>  \* tuple item; no property name
     ELSE this_name

\* _make_record: this_base_name in (parent_required or [])
IsRequired(path, parent_required) ==
  /\ Truthy(parent_required)
  /\ \E i \in 1..Len(parent_required[2]) :
       PyEq(parent_required[2][i], PyStr(ThisBaseName(path)))

\* _make_record: the 'leaf element' column
LeafElement(path) ==
  LET leaf == IF Contains(path, ".") THEN Split(path, ".")[Len(Split(path, "."))]
              ELSE path
  IN IF EndsWith(leaf, <<"[", "]">>)
     THEN (IF DropLast2(leaf) # <<>> THEN DropLast2(leaf) ELSE <<"[", "]">>)
     ELSE IF EndsWith(leaf, <<".", "*">>)
     THEN (IF DropLast2(leaf) = <<>> THEN <<"*">> ELSE DropLast2(leaf))
     ELSE leaf

\* as_csv_value(schema.get(key, ""))
Column(s, key) == PyStr(as_csv_value(GetOr(s, key, PyStr(<<>>))))

\* SchemaWalker._make_record(path, schema, parent_required)
_make_record(path, s, parent_required) ==
  IF ~IsDict(s) THEN Raise("AttributeError")
  ELSE IF Truthy(parent_required) /\ ~IsList(parent_required) THEN Raise("TypeError")
  ELSE PyDict(<<
    <<c_leaf_element, PyStr(as_csv_value(PyStr(LeafElement(path))))>>,
    <<c_path, PyStr(path)>>,
    <<k_description, Column(s, k_description)>>,
    <<k_type, Column(s, k_type)>>,
    <<k_format, Column(s, k_format)>>,
    <<k_enum, Column(s, k_enum)>>,
    <<k_pattern, Column(s, k_pattern)>>,
    <<c_min, Column(s, k_minimum)>>,
    <<c_max, Column(s, k_maximum)>>,
    <<k_exclusiveMinimum, Column(s, k_exclusiveMinimum)>>,
    <<k_exclusiveMaximum, Column(s, k_exclusiveMaximum)>>,
    <<k_multipleOf, Column(s, k_multipleOf)>>,
    <<k_minLength, Column(s, k_minLength)>>,
    <<k_maxLength, Column(s, k_maxLength)>>,
    <<k_minItems, Column(s, k_minItems)>>,
    <<k_maxItems, Column(s, k_maxItems)>>,
    <<k_required, PyStr(IF IsRequired(path, parent_required) THEN c_true ELSE <<>>)>>,
    <<k_default, Column(s, k_default)>>,
    <<k_example, Column(s, k_example)>>,
    <<k_x_internal, Column(s, k_x_internal)>> >>)

\* what _walk leaves: the exception it raised (None when it returned), the
\* records appended to out so far, and the walker
WV(val, out, self) == [val |-> val, out |-> out, self |-> self]

RECURSIVE _walk(_, _, _, _, _, _)
RECURSIVE WalkProperties(_, _, _, _, _, _)
RECURSIVE WalkTuple(_, _, _, _, _, _)

\* _walk: a child that was dereferenced to d is walked
WalkDerefed(d, sub_path, required, out, depth) ==
  IF IsRaise(d.val) THEN WV(d.val, out, d.self)
  ELSE _walk(d.self, d.val, sub_path, required, out, depth + 1)

\* one child of _walk: sub is dereferenced when it is a mapping (always is
\* TRUE for additionalProperties and items, which are dereferenced unchecked)
WalkChild(self, sub, always, sub_path, required, out, depth) ==
  WalkDerefed(IF always \/ IsDict(sub) THEN deref(self, sub, depth) ELSE RV(sub, self),
              sub_path, required, out, depth)

\* sub_path = f"{path}.{name}" if path else name, with the parent's path dropped
PropertyPath_BareName(path, name) == name

\* sub_path = f"{path}.{name}" if path else name
PropertyPath(path, name) == IF path # <<>> THEN path \o <<".">> \o name ELSE name

\* _walk: one property was walked (w); the properties left
WalkPropertiesNext(w, props, path, required_here, depth) ==
  IF IsRaise(w.val) THEN w
  ELSE WalkProperties(w.self, props, path, required_here, w.out, depth)

\* _walk: the loop "for name, sub in props.items()"
WalkProperties(self, props, path, required_here, out, depth) ==
  IF props = <<>> THEN WV(None, out, self)
  ELSE WalkPropertiesNext(
         WalkChild(self, Head(props)[2], FALSE, PropertyPath(path, Head(props)[1]),
                   required_here, out, depth),
         Tail(props), path, required_here, depth)

\* _walk: one tuple item was walked (w); on to item idx
WalkTupleNext(w, items, idx, path, depth) ==
  IF IsRaise(w.val) THEN w ELSE WalkTuple(w.self, items, idx, path, w.out, depth)

\* _walk: the loop "for idx, it in enumerate(items)" (tuple validation), from idx
WalkTuple(self, items, idx, path, out, depth) ==
  IF idx >= Len(items) THEN WV(None, out, self)
  ELSE WalkTupleNext(
         WalkChild(self, items[idx + 1], TRUE, path \o <<"[">> \o IntToStr(idx) \o <<"]">>,
                   PyList(<<>>), out, depth),
         items, idx + 1, path, depth)

\* _walk: "if props and isinstance(props, dict)"
WalkObject(self, s, path, out, depth) ==
  IF Truthy(GetOr(s, k_properties, None)) /\ IsDict(GetOr(s, k_properties, None))
  THEN WalkProperties(self, Get(s, k_properties)[2], path,
                      GetOr(s, k_required, PyList(<<>>)), out, depth)
  ELSE WV(None, out, self)

\* _walk: "if isinstance(addl, dict)", after the properties were walked (w)
WalkAdditional(w, s, path, depth) ==
  IF IsRaise(w.val) \/ ~IsDict(GetOr(s, k_additionalProperties, None)) THEN w
  ELSE WalkChild(w.self, Get(s, k_additionalProperties), TRUE,
                 IF path # <<>> THEN path \o <<".", "*">> ELSE <<"*">>,
                 PyList(<<>>), w.out, depth)

\* _walk: "if t == 'array' or 'items' in schema", after the object part (w)
WalkItems(w, s, path, depth) ==
  IF IsRaise(w.val) THEN w
  ELSE IF ~(PyEq(GetOr(s, k_type, None), PyStr(k_array)) \/ Has(s, k_items)) THEN w
  ELSE IF IsDict(GetOr(s, k_items, None))
  THEN WalkChild(w.self, Get(s, k_items), TRUE, path \o <<"[", "]">>,
                 PyList(<<>>), w.out, depth)
  ELSE IF IsList(GetOr(s, k_items, None))
  THEN WalkTuple(w.self, Get(s, k_items)[2], 0, path, w.out, depth)
  ELSE w

\* the properties walked after something else was (w)
WalkObjectAfter(w, s, path, depth) ==
  IF IsRaise(w.val) THEN w ELSE WalkObject(w.self, s, path, w.out, depth)

\* WalkRecorded, were the items walked before the properties
WalkRecorded_ItemsFirst(self, s, path, rec, out, depth) ==
  IF IsRaise(rec) THEN WV(rec, out, self)
  ELSE WalkAdditional(
         WalkObjectAfter(
           WalkItems(WV(None, IF path # <<>> THEN Append(out, rec) ELSE out, self),
                     s, path, depth),
           s, path, depth),
         s, path, depth)

\* _walk: the record rec of the node is appended (unless the path is empty) and
\* the children are walked
WalkRecorded(self, s, path, rec, out, depth) ==
  IF IsRaise(rec) THEN WV(rec, out, self)
  ELSE WalkItems(
         WalkAdditional(
           WalkObject(self, s, path, IF path # <<>> THEN Append(out, rec) ELSE out, depth),
           s, path, depth),
         s, path, depth)

\* _walk after schema = self.flatten_composites(schema)
WalkFlattened(f, path, parent_required, out, depth) ==
  IF IsRaise(f.val) THEN WV(f.val, out, f.self)
  ELSE IF ~IsDict(f.val) THEN WV(Raise("AttributeError"), out, f.self)
  ELSE WalkRecorded(f.self, f.val, path,
                    IF path # <<>> THEN _make_record(path, f.val, parent_required)
                    ELSE None,
                    out, depth)

\* SchemaWalker._walk(schema, path, parent_required, out)
_walk(self, s0, path, parent_required, out, depth) ==
  IF depth > RecursionLimit THEN WV(Raise("RecursionError"), out, self)
  ELSE WalkFlattened(flatten_composites(self, s0, depth), path, parent_required,
                     out, depth)

\* IterWalked, were iter_elements to return the records made before an error
IterWalked_KeepsRecords(w) == RV(PyList(w.out), w.self)

\* iter_elements: return records, after _walk left w
IterWalked(w) ==
  IF IsRaise(w.val) THEN RV(w.val, w.self) ELSE RV(PyList(w.out), w.self)

\* iter_elements after schema = self.flatten_composites(schema)
IterFlattened(f, bp, depth) ==
  IF IsRaise(f.val) THEN f
  ELSE IF ~IsDict(f.val) THEN RV(Raise("AttributeError"), f.self)
  ELSE IterWalked(_walk(f.self, f.val, bp, GetOr(f.val, k_required, PyList(<<>>)),
                        <<>>, depth))

\* SchemaWalker.iter_elements(schema, base_path)
iter_elements(self, s0, bp, depth) ==
  IF depth > RecursionLimit THEN RV(Raise("RecursionError"), self)
  ELSE IterFlattened(flatten_composites(self, s0, depth), bp, depth)

(***************************************************************************)
(* Main of extract_schema_to_csv.  A run ends as [exit, csv]: its exit      *)
(* status and the rows of the CSV file it wrote, None when it wrote none.   *)
(***************************************************************************)
s_exit == <<"e", "x", "i", "t">>
s_csv == <<"c", "s", "v">>
Exited(status, csv) == PyDict(<< <<s_exit, PyInt(status)>>, <<s_csv, csv>> >>)

\* write_csv(records, output_path): one row per record, a cell per column
write_csv(records) == records

\* main after records = walker.iter_elements(root_schema): an exception is
\* not caught and ends the interpreter with status 1
MainWalked(r) ==
  IF IsRaise(r.val) THEN Exited(1, None) ELSE Exited(0, write_csv(r.val))

\* main after root_schema = resolve_json_pointer(data, args.root_pointer)
MainResolved(data, root_schema) ==
  IF IsRaise(root_schema) THEN Exited(1, None)
  ELSE MainWalked(iter_elements(SchemaWalker(data), root_schema, <<>>, 1))

\* main(), for the parsed input file data and --root-pointer
main(data, root_pointer) ==
  MainResolved(data, resolve_json_pointer(data, root_pointer))

(***************************************************************************)
(* Data dictionary agent: oneOf / anyOf / allOf merging and expansion.     *)
(* merge_schemas and expand_combinators change their arguments in place    *)
(* (the properties mapping and the required list of a shallow copy are the *)
(* ones of the original), so their results carry the arguments as the call *)
(* leaves them: [val, base] and [val, schema, doc].  The agent runs with   *)
(* sys.setrecursionlimit(10000); RecursionLimit is that limit, scaled.     *)
(***************************************************************************)
\* whether t occurs in s as a substring
IsSubstring(t, s) ==
  \E i \in 1..(Len(s) + 1) : i + Len(t) - 1 <= Len(s) /\ SubSeq(s, i, i + Len(t) - 1) = t

RECURSIVE RefNode(_, _)
\* resolve_ref: the loop "node = node[part]"; None when a lookup raises
RefNode(node, parts) ==
  IF parts = <<>> THEN node
  ELSE IF IsDict(node) /\ Has(node, Head(parts))
  THEN RefNode(Get(node, Head(parts)), Tail(parts))
  ELSE None

\* resolve_ref: ref.lstrip("#/").split("/")
RefParts(ref) == Split(LStrip(ref, {"#", "/"}), "/")

\* whether resolve_ref(d, ref) returns a node of the document d
RefInDoc(d, ref) ==
  IsStr(ref) /\ StartsWith(ref[2], <<"#", "/">>) /\ IsDict(RefNode(d, RefParts(ref[2])))

\* resolve_ref(doc, ref)
resolve_ref(d, ref) ==
  IF ~Truthy(ref) THEN PyDict(<<>>)
  ELSE IF ~IsStr(ref) THEN Raise("AttributeError")
  ELSE IF RefInDoc(d, ref) THEN RefNode(d, RefParts(ref[2]))
  ELSE PyDict(<<>>)

RECURSIVE SetAt(_, _, _)
\* the document d in which the node reached by parts is x
SetAt(d, parts, x) ==
  IF parts = <<>> THEN x
  ELSE Put(d, Head(parts), SetAt(Get(d, Head(parts)), Tail(parts), x))

MS(val, base) == [val |-> val, base |-> base]

RECURSIVE DictUpdate(_, _)
\* d.update(kvs)
DictUpdate(d, kvs) ==
  IF kvs = <<>> THEN d
  ELSE DictUpdate(Put(d, Head(kvs)[1], Head(kvs)[2]), Tail(kvs))

RECURSIVE AppendMissing(_, _)
\* for r in rs: if r not in xs: xs.append(r)
AppendMissing(xs, rs) ==
  IF rs = <<>> THEN xs
  ELSE AppendMissing(IF \E i \in 1..Len(xs) : PyEq(xs[i], Head(rs)) THEN xs
                     ELSE Append(xs, Head(rs)),
                     Tail(rs))

RECURSIVE AppendToNonList(_, _)
\* the same loop when merged["required"] is cur, not a list: the exception it
\* raises, or None when every r is found in cur
AppendToNonList(cur, rs) ==
  IF rs = <<>> THEN None
  ELSE IF IsStr(cur)
  THEN IF ~IsStr(Head(rs)) THEN Raise("TypeError")
       ELSE IF IsSubstring(Head(rs)[2], cur[2]) THEN AppendToNonList(cur, Tail(rs))
       ELSE Raise("AttributeError")
  ELSE IF IsDict(cur)
  THEN IF ~Hashable(Head(rs)) THEN Raise("TypeError")
       ELSE IF IsStr(Head(rs)) /\ Has(cur, Head(rs)[2]) THEN AppendToNonList(cur, Tail(rs))
       ELSE Raise("AttributeError")
  ELSE Raise("TypeError")

\* k in other, for an other that is a list or a string
KeyInNonDict(k, other) ==
  IF IsList(other) THEN \E i \in 1..Len(other[2]) : PyEq(other[2][i], PyStr(k))
  ELSE IsSubstring(k, other[2])

\* merge_schemas for an other that is not a mapping: a key test it cannot
\* make, or a key it finds and cannot read, raises TypeError
MergeNonDict(base, other) ==
  IF other[1] \notin {"list", "str"} THEN Raise("TypeError")
  ELSE IF KeyInNonDict(k_properties, other) \/ KeyInNonDict(k_required, other)
  THEN Raise("TypeError")
  ELSE IF ~Has(base, k_type) /\ KeyInNonDict(k_type, other) THEN Raise("TypeError")
  ELSE base

\* merge_schemas: "Type override only if missing"
MergeType(ms, other) ==
  IF IsRaise(ms.val) THEN ms
  ELSE IF ~Has(ms.val, k_type) /\ Has(other, k_type)
  THEN MS(Put(ms.val, k_type, Get(other, k_type)), ms.base)
  ELSE ms

\* merged["required"] = xs, which is base's list too when base has one
SetRequired(ms, xs) ==
  MS(Put(ms.val, k_required, xs),
     IF Has(ms.base, k_required) THEN Put(ms.base, k_required, xs) ELSE ms.base)

\* merge_schemas: "Merge required list"
MergeRequired(ms, other) ==
  IF IsRaise(ms.val) THEN ms
  ELSE IF ~(Has(other, k_required) /\ IsList(Get(other, k_required))) THEN ms
  ELSE IF IsList(GetOr(ms.val, k_required, PyList(<<>>)))
  THEN SetRequired(ms, PyList(AppendMissing(GetOr(ms.val, k_required, PyList(<<>>))[2],
                                            Get(other, k_required)[2])))
  ELSE IF IsRaise(AppendToNonList(Get(ms.val, k_required), Get(other, k_required)[2]))
  THEN MS(AppendToNonList(Get(ms.val, k_required), Get(other, k_required)[2]), ms.base)
  ELSE ms

\* merged["properties"] = d, which is base's mapping too when base has one
SetProperties(ms, d) ==
  MS(Put(ms.val, k_properties, d),
     IF Has(ms.base, k_properties) THEN Put(ms.base, k_properties, d) ELSE ms.base)

\* merge_schemas: "Merge properties"
MergeProperties(ms, other) ==
  IF ~(Has(other, k_properties) /\ IsDict(Get(other, k_properties))) THEN ms
  ELSE IF ~IsDict(GetOr(ms.val, k_properties, PyDict(<<>>)))
  THEN MS(Raise("AttributeError"), ms.base)
  ELSE SetProperties(ms, DictUpdate(GetOr(ms.val, k_properties, PyDict(<<>>)),
                                    Get(other, k_properties)[2]))

\* merge_schemas(base, other), for a mapping base
merge_schemas(base, other) ==
  IF ~IsDict(other) THEN MS(MergeNonDict(base, other), base)
  ELSE MergeType(MergeRequired(MergeProperties(MS(base, base), other), other), other)

EC(val, s, d) == [val |-> val, schema |-> s, doc |-> d]

\* schema[comb][i] = x (the list is changed in place)
SetBranch(s, comb, i, x) ==
  Put(s, comb, PyList([Get(s, comb)[2] EXCEPT ![i] = x]))

\* d.pop(k, None)
Pop(d, k) == PyDict(SelectPairs(d[2], Keys(d) \ {k}))

RECURSIVE expand_combinators(_, _, _)
RECURSIVE ExpandBranches(_, _, _, _, _, _)
RECURSIVE ExpandCombs(_, _, _, _, _)

\* expand_combinators: merged = merge_schemas(merged, branch) gave ms
ExpandBranchNext(ms, s, d, comb, i, depth) ==
  IF IsRaise(ms.val) THEN EC(ms.val, s, d)
  ELSE ExpandBranches(ms.val, s, d, comb, i + 1, depth)

\* expand_combinators: branch i, written in place, was expanded to e
ExpandInline(e, merged, s, comb, i, depth) ==
  IF IsRaise(e.val) THEN EC(e.val, SetBranch(s, comb, i, e.schema), e.doc)
  ELSE ExpandBranchNext(merge_schemas(merged, e.val), SetBranch(s, comb, i, e.schema),
                        e.doc, comb, i, depth)

\* expand_combinators: the target of the $ref of branch i was expanded to e;
\* inDoc says that the target is the node of the document at parts
ExpandResolved(e, inDoc, parts, merged, s, comb, i, depth) ==
  IF IsRaise(e.val)
  THEN EC(e.val, s, IF inDoc THEN SetAt(e.doc, parts, e.schema) ELSE e.doc)
  ELSE ExpandBranchNext(merge_schemas(merged, e.val), s,
                        IF inDoc THEN SetAt(e.doc, parts, e.schema) ELSE e.doc,
                        comb, i, depth)

\* expand_combinators: the branch {"$ref": ref, ...}
ExpandRef(ref, merged, s, d, comb, i, depth) ==
  IF IsRaise(resolve_ref(d, ref)) THEN EC(resolve_ref(d, ref), s, d)
  ELSE ExpandResolved(expand_combinators(d, resolve_ref(d, ref), depth + 1),
                      RefInDoc(d, ref), IF IsStr(ref) THEN RefParts(ref[2]) ELSE <<>>,
                      merged, s, comb, i, depth)

\* expand_combinators: the loop "for branch in branches", from branch i
ExpandBranches(merged, s, d, comb, i, depth) ==
  IF i > Len(Get(s, comb)[2]) THEN EC(merged, s, d)
  ELSE IF IsDict(Get(s, comb)[2][i]) /\ Has(Get(s, comb)[2][i], k_ref)
  THEN ExpandRef(Get(Get(s, comb)[2][i], k_ref), merged, s, d, comb, i, depth)
  ELSE ExpandInline(expand_combinators(d, Get(s, comb)[2][i], depth + 1),
                    merged, s, comb, i, depth)

\* out, the shallow copy of schema, shares its properties and required with
\* it: schema as merge_schemas(out, merged) leaves it
Shared(s, out) ==
  PyDict([i \in 1..Len(s[2]) |->
            IF s[2][i][1] \in {k_properties, k_required} /\ Has(out, s[2][i][1])
            THEN <<s[2][i][1], Get(out, s[2][i][1])>> ELSE s[2][i]])

\* expand_combinators: out = merge_schemas(out, merged) gave ms; out.pop(comb)
ExpandPop(ms, s, d, combs, depth) ==
  IF IsRaise(ms.val) THEN EC(ms.val, Shared(s, ms.base), d)
  ELSE ExpandCombs(Pop(ms.val, Head(combs)), Shared(s, ms.base), d, Tail(combs), depth)

\* expand_combinators: the branches of one combinator were merged (e.val)
ExpandMerged(e, out, combs, depth) ==
  IF IsRaise(e.val) THEN e
  ELSE ExpandPop(merge_schemas(out, e.val), e.schema, e.doc, combs, depth)

\* expand_combinators: the loop "for comb in (oneOf, anyOf, allOf)"
ExpandCombs(out, s, d, combs, depth) ==
  IF combs = <<>> THEN EC(out, s, d)
  ELSE IF IsList(GetOr(s, Head(combs), None))
  THEN ExpandMerged(ExpandBranches(PyDict(<<>>), s, d, Head(combs), 1, depth),
                    out, combs, depth)
  ELSE ExpandCombs(out, s, d, Tail(combs), depth)

\* expand_combinators(doc, schema)
expand_combinators(d, s, depth) ==
  IF depth > RecursionLimit THEN EC(Raise("RecursionError"), s, d)
  ELSE IF ~IsDict(s) THEN EC(s, s, d)
  ELSE ExpandCombs(s, s, d, <<k_oneOf, k_anyOf, k_allOf>>, depth)

(***************************************************************************)
(* Data dictionary agent: the rows of the dictionary.  The operators return *)
(* the rows, or the exception raised; every $ref is resolved against the    *)
(* document as given (what expand_combinators writes into the document      *)
(* while it runs is the subject of ExpandCombinators).                      *)
(***************************************************************************)
k_examples == <<"e", "x", "a", "m", "p", "l", "e", "s">>
k_components == <<"c", "o", "m", "p", "o", "n", "e", "n", "t", "s">>
k_schemas == <<"s", "c", "h", "e", "m", "a", "s">>
k_paths == <<"p", "a", "t", "h", "s">>
c_Element == <<"E", "l", "e", "m", "e", "n", "t">>
c_Definition == <<"D", "e", "f", "i", "n", "i", "t", "i", "o", "n">>
c_Type == <<"T", "y", "p", "e">>
c_Example_Constraints == <<"E", "x", "a", "m", "p", "l", "e", "/", "C", "o", "n", "s", "t", "r", "a", "i", "n", "t", "s">>
c_Location == <<"L", "o", "c", "a", "t", "i", "o", "n">>
c_Path == <<"P", "a", "t", "h">>
c_component_schema == <<"c", "o", "m", "p", "o", "n", "e", "n", "t", " ", "s", "c", "h", "e", "m", "a">>

RECURSIVE Join(_, _)
\* sep.join(xs)
Join(xs, sep) ==
  IF xs = <<>> THEN <<>>
  ELSE IF Len(xs) = 1 THEN xs[1]
  ELSE xs[1] \o sep \o Join(Tail(xs), sep)

RECURSIVE Repr(_)
\* repr(x); str(x) is PyStrOf(x)
Repr(x) ==
  CASE x[1] = "str" -> <<"'">> \o x[2] \o <<"'">>
    [] x[1] = "null" -> <<"N", "o", "n", "e">>
    [] x[1] = "bool" -> IF x[2] THEN <<"T", "r", "u", "e">> ELSE <<"F", "a", "l", "s", "e">>
    [] x[1] = "int" -> IF x[2] < 0 THEN <<"-">> \o IntToStr(-x[2]) ELSE IntToStr(x[2])
    [] x[1] = "list" ->
         <<"[">> \o Join([i \in 1..Len(x[2]) |-> Repr(x[2][i])], <<",", " ">>) \o <<"]">>
    [] x[1] = "dict" ->
         <<"{">> \o Join([i \in 1..Len(x[2]) |->
                            Repr(PyStr(x[2][i][1])) \o <<":", " ">> \o Repr(x[2][i][2])],
                         <<",", " ">>) \o <<"}">>

\* str(x)
PyStrOf(x) == IF IsStr(x) THEN x[2] ELSE Repr(x)

\* safe_join(*parts)
safe_join(parts) == Join(SelectSeq(parts, LAMBDA q : q # <<>>), <<" ", "|", " ">>)

\* normalise_type(schema)
normalise_type(s) ==
  IF ~IsDict(s) THEN PyStr(<<>>)
  ELSE IF Truthy(GetOr(s, k_type, None)) /\ Truthy(GetOr(s, k_format, None))
  THEN PyStr(PyStrOf(Get(s, k_type)) \o <<" ", "(">> \o PyStrOf(Get(s, k_format)) \o <<")">>)
  ELSE IF Truthy(GetOr(s, k_type, None)) THEN Get(s, k_type)
  ELSE IF Has(s, k_ref) THEN PyStr(k_ref) ELSE PyStr(<<>>)

\* extract_example(schema)
extract_example(s) ==
  IF ~IsDict(s) THEN <<>>
  ELSE IF Has(s, k_example) THEN Dumps(Get(s, k_example))
  ELSE IF Has(s, k_examples) THEN Dumps(Get(s, k_examples))
  ELSE <<>>

\* extract_constraints: the keys looked for, in the order of the source
AGENT_CONSTRAINT_KEYS ==
  << k_pattern, k_enum, k_minimum, k_maximum, k_exclusiveMinimum, k_exclusiveMaximum,
     k_multipleOf, k_minLength, k_maxLength, k_minItems, k_maxItems, k_uniqueItems >>

\* extract_constraints: the text for one key that the schema has
Constraint(s, key) ==
  IF key = k_enum /\ IsList(Get(s, key))
  THEN <<"e", "n", "u", "m", ":", " ">> \o Join([i \in 1..Len(Get(s, key)[2]) |-> PyStrOf(Get(s, key)[2][i])],
                           <<",", " ">>)
  ELSE key \o <<":", " ">> \o PyStrOf(Get(s, key))

\* extract_constraints(schema)
extract_constraints(s) ==
  IF ~IsDict(s) THEN <<>>
  ELSE LET present == SelectSeq(AGENT_CONSTRAINT_KEYS, LAMBDA key : Has(s, key))
       IN Join([i \in 1..Len(present) |-> Constraint(s, present[i])], <<";", " ">>)

\* a row of the dictionary
Row(element, definition, type, example_constraints, location, path) ==
  PyDict(<< <<c_Element, PyStr(element)>>, <<c_Definition, definition>>,
            <<c_Type, type>>, <<c_Example_Constraints, PyStr(example_constraints)>>,
            <<c_Location, PyStr(location)>>, <<c_Path, PyStr(path)>> >>)

\* flatten_properties: "name in required"; Raise when required has no "in"
NameIn(name, required) ==
  CASE required[1] = "list" ->
         PyBool(\E i \in 1..Len(required[2]) : PyEq(required[2][i], PyStr(name)))
    [] required[1] = "dict" -> PyBool(Has(required, name))
    [] required[1] = "str" -> PyBool(IsSubstring(name, required[2]))
    [] OTHER -> Raise("TypeError")

\* a node is replaced by resolve_ref of its $ref when it is a mapping with one
Resolved(d, s) == IF IsDict(s) /\ Has(s, k_ref) THEN resolve_ref(d, Get(s, k_ref)) ELSE s

\* x = resolve_ref(...) if "$ref" in x; x = expand_combinators(doc, x)
ResolveExpand(d, s, depth) ==
  IF IsRaise(Resolved(d, s)) THEN Resolved(d, s)
  ELSE expand_combinators(d, Resolved(d, s), depth).val

\* f"{parent_name}.{name}" if parent_name else name
ElementName(parent_name, name) ==
  IF parent_name # <<>> THEN parent_name \o <<".">> \o name ELSE name

\* the row of the property name, whose schema was resolved and expanded to ps
PropertyRow(name, ps, parent_name, location, path_context, required) ==
  IF ~IsDict(ps) THEN Raise("AttributeError")
  ELSE IF IsRaise(NameIn(name, required)) THEN NameIn(name, required)
  ELSE Row(ElementName(parent_name, name),
           GetOr(ps, k_description, PyStr(<<>>)),
           normalise_type(ps),
           safe_join(<< extract_example(ps), extract_constraints(ps),
                        IF NameIn(name, required)[2] THEN k_required ELSE <<>> >>),
           location, path_context)

RECURSIVE flatten_properties(_, _, _, _, _, _, _)
RECURSIVE FlattenProps(_, _, _, _, _, _, _, _)

\* rows.extend(more): more is a list of rows or the exception raised
Extend(rows, more) == IF IsRaise(more) THEN more ELSE PyList(rows \o more[2])

\* flatten_properties: the items of an array property, resolved and expanded
FlattenArrayItems(d, items, rows, element, location, path_context, depth) ==
  IF IsRaise(items) THEN items
  ELSE IF ~IsDict(items) THEN Raise("AttributeError")
  ELSE IF PyEq(GetOr(items, k_type, None), PyStr(k_object))
          \/ Truthy(GetOr(items, k_properties, None))
  THEN Extend(rows[2],
              flatten_properties(d, items, element \o <<"[", "]">>, location,
                                 path_context, None, depth + 1))
  ELSE rows

\* flatten_properties: "if prop_schema.get('type') == 'array'", after the
\* nested object (rows)
FlattenArray(d, rows, ps, element, location, path_context, depth) ==
  IF IsRaise(rows) \/ ~PyEq(GetOr(ps, k_type, None), PyStr(k_array)) THEN rows
  ELSE FlattenArrayItems(d, ResolveExpand(d, GetOr(ps, k_items, PyDict(<<>>)), depth),
                         rows, element, location, path_context, depth)

\* flatten_properties: "if prop_schema.get('type') == 'object' or
\* prop_schema.get('properties')", after the row was appended to rows
FlattenObject(d, ps, rows, element, location, path_context, depth) ==
  IF PyEq(GetOr(ps, k_type, None), PyStr(k_object)) \/ Truthy(GetOr(ps, k_properties, None))
  THEN Extend(rows, flatten_properties(d, ps, element, location, path_context, None,
                                       depth + 1))
  ELSE PyList(rows)

\* flatten_properties: the rest of the loop, after one property left rows
FlattenPropsNext(d, rows, props, parent_name, location, path_context, required, depth) ==
  IF IsRaise(rows) THEN rows
  ELSE FlattenProps(d, props, parent_name, location, path_context, required,
                    rows[2], depth)

\* flatten_properties: one property, whose schema was resolved and expanded to
\* ps: its row is appended, then the rows of its properties and of its items
FlattenProperty(d, ps, row, name, rows, parent_name, location, path_context, depth) ==
  IF IsRaise(ps) THEN ps
  ELSE IF IsRaise(row) THEN row
  ELSE FlattenArray(d,
                    FlattenObject(d, ps, Append(rows, row), ElementName(parent_name, name),
                                  location, path_context, depth),
                    ps, ElementName(parent_name, name), location, path_context, depth)

\* flatten_properties: the loop "for name, prop_schema in props.items()"
FlattenProps(d, props, parent_name, location, path_context, required, rows, depth) ==
  IF props = <<>> THEN PyList(rows)
  ELSE FlattenPropsNext(
         d,
         FlattenProperty(d, ResolveExpand(d, Head(props)[2], depth),
                         PropertyRow(Head(props)[1],
                                     ResolveExpand(d, Head(props)[2], depth),
                                     parent_name, location, path_context, required),
                         Head(props)[1], rows, parent_name, location, path_context,
                         depth),
         Tail(props), parent_name, location, path_context, required, depth)

\* flatten_properties after schema = expand_combinators(doc, schema)
FlattenExpanded(d, s, parent_name, location, path_context, required, depth) ==
  IF IsRaise(s) THEN s
  ELSE IF ~IsDict(GetOr(s, k_properties, PyDict(<<>>))) THEN PyList(<<>>)
  ELSE FlattenProps(d, GetOr(s, k_properties, PyDict(<<>>))[2], parent_name,
                    location, path_context,
                    IF Truthy(required) THEN required
                    ELSE IF Truthy(GetOr(s, k_required, PyList(<<>>)))
                    THEN Get(s, k_required) ELSE PyList(<<>>),
                    <<>>, depth)

\* flatten_properties(doc, schema, parent_name, location, path_context, required)
flatten_properties(d, s, parent_name, location, path_context, required, depth) ==
  IF depth > RecursionLimit THEN Raise("RecursionError")
  ELSE IF ~IsDict(s) THEN PyList(<<>>)
  ELSE FlattenExpanded(d, expand_combinators(d, s, depth).val, parent_name, location,
                       path_context, required, depth)

RECURSIVE ComponentSchemas(_, _, _)

\* extract_components_schemas: the rest of the loop, after one schema left rows
ComponentNext(d, rows, schemas) ==
  IF IsRaise(rows) THEN rows ELSE ComponentSchemas(d, schemas, rows[2])

\* extract_components_schemas: one schema, resolved and expanded to s: its row,
\* then the rows of its properties
Component(d, s, name, rows) ==
  IF IsRaise(s) THEN s
  ELSE IF ~IsDict(s) THEN Raise("AttributeError")
  ELSE Extend(Append(rows,
                     Row(name, GetOr(s, k_description, PyStr(<<>>)),
                         normalise_type(s),
                         safe_join(<<extract_example(s), extract_constraints(s)>>),
                         c_component_schema, <<>>)),
              flatten_properties(d, s, name, c_component_schema, <<>>, None, 1))

\* extract_components_schemas: the loop "for name, schema in schemas.items()"
ComponentSchemas(d, schemas, rows) ==
  IF schemas = <<>> THEN PyList(rows)
  ELSE ComponentNext(d,
                     Component(d, ResolveExpand(d, Head(schemas)[2], 1),
                               Head(schemas)[1], rows),
                     Tail(schemas))

\* doc.get(key, {}) or {}
GetOrEmpty(d, key) ==
  IF Truthy(GetOr(d, key, PyDict(<<>>))) THEN Get(d, key) ELSE PyDict(<<>>)

\* extract_components_schemas(doc)
extract_components_schemas(d) ==
  IF ~IsDict(GetOrEmpty(d, k_components)) THEN Raise("AttributeError")
  ELSE IF ~IsDict(GetOrEmpty(GetOrEmpty(d, k_components), k_schemas))
  THEN Raise("AttributeError")
  ELSE ComponentSchemas(d, GetOrEmpty(GetOrEmpty(d, k_components), k_schemas)[2], <<>>)

\* build_dictionary: the loop "for r in rows" that builds unique: the key of
\* a row holds id(r), so every row is kept; hashing the key raises when the
\* Definition or the Type of a row is unhashable
Unique(rows) ==
  IF IsRaise(rows) THEN rows
  ELSE IF \E i \in 1..Len(rows[2]) :
            ~Hashable(Get(rows[2][i], c_Definition)) \/ ~Hashable(Get(rows[2][i], c_Type))
  THEN Raise("TypeError")
  ELSE rows

\* build_dictionary(doc), for a document whose paths are empty (the loop over
\* the paths adds no row)
build_dictionary(d) == Unique(extract_components_schemas(d))

(***************************************************************************)
(* HTTP error extractor (compile_http_errors_from_oas): aggregation.       *)
(***************************************************************************)
c_Status == <<"S", "t", "a", "t", "u", "s">>
c_ErrorCode == <<"E", "r", "r", "o", "r", "C", "o", "d", "e">>
c_Description == <<"D", "e", "s", "c", "r", "i", "p", "t", "i", "o", "n">>
c_EnumValues == <<"E", "n", "u", "m", "V", "a", "l", "u", "e", "s">>

\* r.get(key, "")
Cell(r, key) == GetOr(r, key, PyStr(<<>>))

\* dedupe_rows: the key of a row without its EnumValues
RowKey_WithoutEnumValues(r) ==
  << Cell(r, c_Status), Cell(r, c_ErrorCode), Cell(r, c_Description), PyStr(<<>>) >>

\* dedupe_rows: key = (Status, ErrorCode, Description, EnumValues) of a row
RowKey(r) ==
  << Cell(r, c_Status), Cell(r, c_ErrorCode), Cell(r, c_Description),
     Cell(r, c_EnumValues) >>

\* key in seen: the members of the tuples are compared with ==
KeyIn(key, seen) ==
  \E i \in 1..Len(seen) : \A j \in 1..4 : PyEq(seen[i][j], key[j])

\* dedupe_rows: the row appended to uniq for a key
KeyRow(key) ==
  PyDict(<< <<c_Status, key[1]>>, <<c_ErrorCode, key[2]>>,
            <<c_Description, key[3]>>, <<c_EnumValues, key[4]>> >>)

RECURSIVE DedupeLoop(_, _, _)
\* dedupe_rows: the loop "for r in rows"; hashing a key raises when a cell is
\* unhashable
DedupeLoop(rs, seen, uniq) ==
  IF rs = <<>> THEN PyList(uniq)
  ELSE IF ~IsDict(Head(rs)) THEN Raise("AttributeError")
  ELSE IF \E j \in 1..4 : ~Hashable(RowKey(Head(rs))[j]) THEN Raise("TypeError")
  ELSE IF KeyIn(RowKey(Head(rs)), seen) THEN DedupeLoop(Tail(rs), seen, uniq)
  ELSE DedupeLoop(Tail(rs), Append(seen, RowKey(Head(rs))),
                  Append(uniq, KeyRow(RowKey(Head(rs)))))

\* dedupe_rows(rows)
dedupe_rows(rs) == DedupeLoop(rs[2], <<>>, <<>>)

\* int(status) in sort_key, 10**9 when it raises (status is a str)
StatusNum(status) == IF IsIntLiteral(status) THEN ParseInt(status) ELSE 1000000000

\* sort_key(r): (status_num, status, ErrorCode, Description); the cells are str
sort_key(r) ==
  << StatusNum(Cell(r, c_Status)[2]), Cell(r, c_Status)[2], Cell(r, c_ErrorCode)[2],
     Cell(r, c_Description)[2] >>

\* k1 < k2 for two sort keys (tuple comparison)
KeyLess(k1, k2) ==
  \/ k1[1] < k2[1]
  \/ k1[1] = k2[1] /\ StrLess(k1[2], k2[2])
  \/ k1[1] = k2[1] /\ k1[2] = k2[2] /\ StrLess(k1[3], k2[3])
  \/ k1[1] = k2[1] /\ k1[2] = k2[2] /\ k1[3] = k2[3] /\ StrLess(k1[4], k2[4])

RECURSIVE InsertRow(_, _)
\* one step of the stable sort of rows by sort_key
InsertRow(sorted, r) ==
  IF sorted = <<>> THEN <<r>>
  ELSE IF KeyLess(sort_key(r), sort_key(Head(sorted))) THEN <<r>> \o sorted
  ELSE <<Head(sorted)>> \o InsertRow(Tail(sorted), r)

RECURSIVE SortedRows(_)
\* sorted(rows, key=sort_key)
SortedRows(rs) ==
  IF rs = <<>> THEN <<>>
  ELSE InsertRow(SortedRows(SubSeq(rs, 1, Len(rs) - 1)), rs[Len(rs)])

\* sort_rows(rows)
sort_rows(rs) == PyList(SortedRows(rs[2]))

RECURSIVE Strip(_)
RECURSIVE RStrip(_)
\* x.rstrip() and x.strip() (blanks)
RStrip(x) == IF x # <<>> /\ x[Len(x)] = " " THEN RStrip(SubSeq(x, 1, Len(x) - 1)) ELSE x
Strip(x) == IF x # <<>> /\ Head(x) = " " THEN Strip(Tail(x)) ELSE RStrip(x)

RECURSIVE SetAdd(_, _)
\* set.add for each member of xs: s with the members of xs it lacks
SetAdd(s, xs) ==
  IF xs = <<>> THEN s
  ELSE SetAdd(IF \E i \in 1..Len(s) : s[i] = Head(xs) THEN s ELSE Append(s, Head(xs)),
              Tail(xs))

\* [x.strip() for x in r["EnumValues"].split(",") if x.strip()]
EnumParts(text) ==
  SelectSeq([i \in 1..Len(Split(text, ",")) |-> Strip(Split(text, ",")[i])],
            LAMBDA x : x # <<>>)

\* group_by_status: the bucket b with the cells of the row r added
BucketAdd(bk, r) ==
  [ codes |-> IF Truthy(Cell(r, c_ErrorCode))
              THEN SetAdd(bk.codes, <<Cell(r, c_ErrorCode)[2]>>) ELSE bk.codes,
    descs |-> IF Truthy(Cell(r, c_Description))
              THEN SetAdd(bk.descs, <<Cell(r, c_Description)[2]>>) ELSE bk.descs,
    enums |-> IF Truthy(Cell(r, c_EnumValues))
              THEN SetAdd(bk.enums, EnumParts(Cell(r, c_EnumValues)[2])) ELSE bk.enums ]

\* buckets.setdefault(s, {"codes": set(), "descs": set(), "enums": set()})
EmptyBucket == [codes |-> <<>>, descs |-> <<>>, enums |-> <<>>]

RECURSIVE Buckets(_, _)
\* group_by_status: the loop "for r in rows"; buckets is a sequence of
\* <<status, bucket>> in the order the statuses were first seen
Buckets(rs, buckets) ==
  IF rs = <<>> THEN buckets
  ELSE Buckets(Tail(rs),
         IF \E i \in 1..Len(buckets) : buckets[i][1] = Cell(Head(rs), c_Status)[2]
         THEN [i \in 1..Len(buckets) |->
                 IF buckets[i][1] = Cell(Head(rs), c_Status)[2]
                 THEN <<buckets[i][1], BucketAdd(buckets[i][2], Head(rs))>>
                 ELSE buckets[i]]
         ELSE Append(buckets, <<Cell(Head(rs), c_Status)[2],
                                BucketAdd(EmptyBucket, Head(rs))>>))

RECURSIVE InsertInt(_, _)
InsertInt(sorted, n) ==
  IF sorted = <<>> THEN <<n>>
  ELSE IF n < Head(sorted) THEN <<n>> \o sorted
  ELSE <<Head(sorted)>> \o InsertInt(Tail(sorted), n)

RECURSIVE SortedInts(_)
\* sorted(nums)
SortedInts(ns) ==
  IF ns = <<>> THEN <<>>
  ELSE InsertInt(SortedInts(SubSeq(ns, 1, Len(ns) - 1)), ns[Len(ns)])

\* str(n)
IntText(n) == IF n < 0 THEN <<"-">> \o IntToStr(0 - n) ELSE IntToStr(n)

\* sorted(strs) for a sequence of strings
SortedTexts(xs) == LET srt == SortPairs([i \in 1..Len(xs) |-> <<xs[i], xs[i]>>])
                   IN [i \in 1..Len(srt) |-> srt[i][2]]

\* smart_sort(values): [str(n) for n in sorted(nums)] + sorted(strs)
smart_sort(values) ==
  LET nums == SelectSeq(values, IsIntLiteral)
      strs == SelectSeq(values, LAMBDA v : ~IsIntLiteral(v))
      srt == SortedInts([i \in 1..Len(nums) |-> ParseInt(nums[i])])
  IN [i \in 1..Len(srt) |-> IntText(srt[i])] \o SortedTexts(strs)

\* group_by_status: the row appended to out for the status s and its bucket
BucketRow(st, agg) ==
  PyDict(<< <<c_Status, PyStr(st)>>,
            <<c_ErrorCode, PyStr(Join(smart_sort(agg.codes), <<",", " ">>))>>,
            <<c_Description, PyStr(Join(SortedTexts(agg.descs), <<";", " ">>))>>,
            <<c_EnumValues, PyStr(Join(smart_sort(agg.enums), <<",", " ">>))>> >>)

\* group_by_status: the loop "for s, agg in buckets.items()"
BucketRows(buckets) ==
  [i \in 1..Len(buckets) |-> BucketRow(buckets[i][1], buckets[i][2])]

\* group_by_status(rows)
group_by_status(rs) == sort_rows(PyList(BucketRows(Buckets(rs[2], <<>>))))

(***************************************************************************)
(* compile_http_errors_from_oas: the codes, messages and enums of a        *)
(* response schema.  A mapping of the document is named by the keys that   *)
(* lead to it, which stands for its identity id(s): <<"doc", path>>; the   *)
(* new mapping {"properties": item_props} that the extraction builds for   *)
(* the items at path is <<"new", path>>.  An index of a list is written as *)
(* its decimal digits.  A $ref is a str.                                   *)
(***************************************************************************)
CODE_KEYS ==
  {<<"c", "o", "d", "e">>, <<"e", "r", "r", "o", "r", "C", "o", "d", "e">>, <<"e", "r", "r", "o", "r", "_", "c", "o", "d", "e">>, <<"s", "t", "a", "t", "u", "s", "C", "o", "d", "e">>, <<"s", "t", "a", "t", "u", "s", "_", "c", "o", "d", "e">>}
MESSAGE_KEYS == {<<"m", "e", "s", "s", "a", "g", "e">>, <<"e", "r", "r", "o", "r">>, <<"r", "e", "a", "s", "o", "n">>, <<"d", "e", "t", "a", "i", "l">>, k_description}

DocNode(path) == <<"doc", path>>
NewNode(path) == <<"new", path>>
Child(h, key) == DocNode(h[2] \o <<key>>)

RECURSIVE At(_, _)
\* the value below x that the keys and indices of path lead to
At(x, path) ==
  IF path = <<>> THEN x
  ELSE IF IsList(x) THEN At(x[2][DigitsVal(Head(path), 0) + 1], Tail(path))
       ELSE At(Get(x, Head(path)), Tail(path))

NodeValue(d, h) ==
  IF h[1] = "new"
  THEN PyDict(<< <<k_properties, GetOr(At(d, h[2]), k_properties, PyDict(<<>>))>> >>)
  ELSE At(d, h[2])

\* resolve_ref: parts = ref.lstrip("#/").split("/")
RefKeys(ref) == Split(LStrip(ref, {"#", "/"}), "/")

RECURSIVE DescendDicts(_, _)
\* resolve_ref: the loop over parts reaches a mapping; a part that is no key
\* of a mapping, or a node that is no mapping, gives None
DescendDicts(node, parts) ==
  IF parts = <<>> THEN IsDict(node)
  ELSE IsDict(node) /\ Has(node, Head(parts))
       /\ DescendDicts(Get(node, Head(parts)), Tail(parts))

\* resolve_ref(ref, doc) of the error extractor returns a mapping
RefResolves(ref, d) ==
  IsStr(ref) /\ StartsWith(ref[2], <<"#", "/">>) /\ DescendDicts(d, RefKeys(ref[2]))

\* if "$ref" in s: resolved = resolve_ref(s["$ref"], doc); s = resolved when
\* that is a mapping
ResolvedNode(h, d) ==
  IF Has(NodeValue(d, h), k_ref) /\ RefResolves(Get(NodeValue(d, h), k_ref), d)
  THEN DocNode(RefKeys(Get(NodeValue(d, h), k_ref)[2]))
  ELSE h

Collected(acc, seen) == [acc |-> acc, seen |-> seen]
TypeIs(s, t) == Has(s, k_type) /\ Get(s, k_type) = PyStr(t)

RECURSIVE visit(_, _, _)
RECURSIVE VisitBranches(_, _, _, _, _)
RECURSIVE VisitComposites(_, _, _, _)
RECURSIVE VisitProps(_, _, _, _)

\* visit: if s.get("type") == "array" and isinstance(s.get("items"), dict)
VisitItems(h, d, st) ==
  IF TypeIs(NodeValue(d, h), k_array)
     /\ IsDict(GetOr(NodeValue(d, h), k_items, None))
  THEN visit(Child(h, k_items), d, st)
  ELSE st

\* visit: for sub in s[key], from the i-th on
VisitBranches(h, d, key, i, st) ==
  IF ~(Has(NodeValue(d, h), key) /\ IsList(Get(NodeValue(d, h), key))) THEN st
  ELSE IF i > Len(Get(NodeValue(d, h), key)[2]) THEN st
  ELSE VisitBranches(h, d, key, i + 1,
         IF IsDict(Get(NodeValue(d, h), key)[2][i])
         THEN visit(Child(Child(h, key), IntToStr(i - 1)), d, st)
         ELSE st)

\* visit: for key in ("allOf", "oneOf", "anyOf")
VisitComposites(h, d, keys, st) ==
  IF keys = <<>> THEN st
  ELSE VisitComposites(h, d, Tail(keys), VisitBranches(h, d, Head(keys), 1, st))

\* visit: for p in props.values(), from the i-th on
VisitProps(h, d, i, st) ==
  IF ~IsDict(GetOr(NodeValue(d, h), k_properties, None)) THEN st
  ELSE IF i > Len(Get(NodeValue(d, h), k_properties)[2]) THEN st
  ELSE VisitProps(h, d, i + 1,
         IF IsDict(Get(NodeValue(d, h), k_properties)[2][i][2])
            /\ (Has(Get(NodeValue(d, h), k_properties)[2][i][2], k_ref)
                \/ TypeIs(Get(NodeValue(d, h), k_properties)[2][i][2], k_array)
                \/ TypeIs(Get(NodeValue(d, h), k_properties)[2][i][2], k_object))
         THEN visit(Child(Child(h, k_properties),
                          Get(NodeValue(d, h), k_properties)[2][i][1]), d, st)
         ELSE st)

\* visit, after acc.append(s) with s the resolved mapping
VisitResolved(h, d, st) ==
  VisitProps(h, d, 1,
    VisitComposites(h, d, <<k_allOf, k_oneOf, k_anyOf>>,
      VisitItems(h, d, Collected(Append(st.acc, h), st.seen))))

\* visit(s) of _walk_schema_collect
visit(h, d, st) ==
  IF ~IsDict(NodeValue(d, h)) \/ h \in st.seen THEN st
  ELSE VisitResolved(ResolvedNode(h, d), d, Collected(st.acc, st.seen \cup {h}))

\* _walk_schema_collect(schema, doc, seen) with seen = set()
_walk_schema_collect(h, d) == visit(h, d, Collected(<<>>, {})).acc

Extracted(codes, messages, enums) == <<"tuple", <<codes, messages, enums>>>>

\* _list_extend_unique on each of the three lists
ExtendAll(out, r) ==
  IF IsRaise(out) THEN out
  ELSE IF IsRaise(r) THEN r
  ELSE Extracted(SetAdd(out[2][1], r[2][1]), SetAdd(out[2][2], r[2][2]),
                 SetAdd(out[2][3], r[2][3]))

RECURSIVE StrAll(_)
\* [str(x) for x in xs]
StrAll(xs) == IF xs = <<>> THEN <<>> ELSE <<PyStrOf(Head(xs))>> \o StrAll(Tail(xs))

RECURSIVE CodeExamples(_, _)
\* for k in ("example", "default", "const"): if k in val and val[k] is not None
CodeExamples(val, keys) ==
  IF keys = <<>> THEN <<>>
  ELSE (IF Has(val, Head(keys)) /\ Get(val, Head(keys)) # None
        THEN <<PyStrOf(Get(val, Head(keys)))>> ELSE <<>>)
       \o CodeExamples(val, Tail(keys))

RECURSIVE MessageExamples(_, _)
\* for k in ("example", "default", "description"): a str that is not blank
MessageExamples(val, keys) ==
  IF keys = <<>> THEN <<>>
  ELSE (IF Has(val, Head(keys)) /\ IsStr(Get(val, Head(keys)))
           /\ Strip(Get(val, Head(keys))[2]) # <<>>
        THEN <<Strip(Get(val, Head(keys))[2])>> ELSE <<>>)
       \o MessageExamples(val, Tail(keys))

\* if key in CODE_KEYS
CodeValues(key, val, out) ==
  IF IsRaise(out) \/ key \notin CODE_KEYS THEN out
  ELSE ExtendAll(out,
         Extracted(CodeExamples(val, <<k_example, k_default, k_const>>), <<>>,
                   IF IsList(GetOr(val, k_enum, None))
                   THEN StrAll(Get(val, k_enum)[2]) ELSE <<>>))

\* if key in MESSAGE_KEYS
MessageValues(key, val, out) ==
  IF IsRaise(out) \/ key \notin MESSAGE_KEYS THEN out
  ELSE ExtendAll(out,
         Extracted(<<>>, MessageExamples(val, <<k_example, k_default, k_description>>),
                   <<>>))

RECURSIVE extract_codes_msgs_enums_from_schema(_, _, _)
RECURSIVE ExtractFrags(_, _, _, _)
RECURSIVE ExtractProps(_, _, _, _, _)

\* if val.get("type") == "array" and isinstance(val.get("items"), dict): the
\* items, resolved when they are a $ref, give {"properties": item_props}
ArrayItems(vh, d, out, depth) ==
  IF IsRaise(out) THEN out
  ELSE IF TypeIs(NodeValue(d, vh), k_array)
          /\ IsDict(GetOr(NodeValue(d, vh), k_items, None))
          /\ IsDict(GetOr(NodeValue(d, ResolvedNode(Child(vh, k_items), d)),
                          k_properties, PyDict(<<>>)))
  THEN ExtendAll(out,
         extract_codes_msgs_enums_from_schema(
           NewNode(ResolvedNode(Child(vh, k_items), d)[2]), d, depth + 1))
  ELSE out

\* if val.get("type") == "object" and isinstance(val.get("properties"), dict)
ObjectProps(vh, d, out, depth) ==
  IF IsRaise(out) THEN out
  ELSE IF TypeIs(NodeValue(d, vh), k_object)
          /\ IsDict(GetOr(NodeValue(d, vh), k_properties, None))
  THEN ExtendAll(out, extract_codes_msgs_enums_from_schema(vh, d, depth + 1))
  ELSE out

\* the body of for key, val in props.items()
ExtractProp(key, vh, d, out, depth) ==
  IF ~IsDict(NodeValue(d, vh)) THEN out
  ELSE ObjectProps(vh, d,
         ArrayItems(vh, d,
           MessageValues(key, NodeValue(d, vh),
             CodeValues(key, NodeValue(d, vh), out)), depth), depth)

\* for key, val in props.items(), from the i-th on
ExtractProps(fh, d, i, out, depth) ==
  IF IsRaise(out) \/ i > Len(Get(NodeValue(d, fh), k_properties)[2]) THEN out
  ELSE ExtractProps(fh, d, i + 1,
         ExtractProp(Get(NodeValue(d, fh), k_properties)[2][i][1],
                     Child(Child(fh, k_properties),
                           Get(NodeValue(d, fh), k_properties)[2][i][1]),
                     d, out, depth), depth)

\* sch_desc = frag.get("description"): a str that is not blank is a message
FragDescription(frag, out) ==
  IF IsRaise(out) THEN out
  ELSE ExtendAll(out, Extracted(<<>>, MessageExamples(frag, <<k_description>>), <<>>))

\* the body of for frag in frags
ExtractFrag(fh, d, out, depth) ==
  IF ~Has(NodeValue(d, fh), k_properties)
  THEN FragDescription(NodeValue(d, fh), out)
  ELSE IF ~IsDict(Get(NodeValue(d, fh), k_properties)) THEN out
  ELSE FragDescription(NodeValue(d, fh), ExtractProps(fh, d, 1, out, depth))

\* for frag in frags
ExtractFrags(frags, d, out, depth) ==
  IF IsRaise(out) \/ frags = <<>> THEN out
  ELSE ExtractFrags(Tail(frags), d, ExtractFrag(Head(frags), d, out, depth), depth)

\* extract_codes_msgs_enums_from_schema(schema, doc): (codes, messages, enums),
\* or RecursionError when the calls nest deeper than the interpreter allows
extract_codes_msgs_enums_from_schema(h, d, depth) ==
  IF depth > RecursionLimit THEN Raise("RecursionError")
  ELSE ExtractFrags(_walk_schema_collect(h, d), d, Extracted(<<>>, <<>>, <<>>), depth)

(***************************************************************************)
(* The command-line tools that take a directory: batch_oas3_agent, combine *)
(* and compile_http_errors_from_oas.  A directory entry is                 *)
(* <<stem, suffix, is_file>>; a subprocess.run call is recorded as         *)
(* <<script, file, outcome>>.                                              *)
(***************************************************************************)
AGENT_SCRIPT == "oas3_data_dictionary_agent.py"
COMBINE_SCRIPT == "combine.py"

\* Path.is_dir() / os.path.isdir() of the directory argument
is_dir(d) == d = "dir"

\* str.lower() of a file suffix
Lower(suffix) == IF suffix = ".JSON" THEN ".json" ELSE suffix

\* find_json_files(target_dir)
find_json_files(es) == SelectSeq(es, LAMBDA e : e[3] /\ Lower(e[2]) = ".json")

\* list_excel_files(base_dir), not recursive
list_excel_files(es) == SelectSeq(es, LAMBDA e : e[3] /\ e[2] = ".xlsx")

\* f"{Path(file).stem}_data_dictionary.xlsx"
output_file(file) == <<file[1], "_data_dictionary.xlsx">>

\* what subprocess.run(cmd, check=True) does: it returns, or raises one of these
RunOutcomes == {"ok", "CalledProcessError", "FileNotFoundError"}

\* "if not any_failed", were combine.py run whatever the agent runs did
RunsCombine_Always(failed) == TRUE

\* main of batch_oas3_agent: "if not any_failed"
RunsCombine(failed) == ~failed

(***************************************************************************)
(* merge_dir_to_tabs: sheet names.                                         *)
(***************************************************************************)
\* the characters of the class [:\\/?*\[\]]
IllegalChars == {":", "\\", "/", "?", "*", "[", "]"}

\* re.sub(r"[:\\/?*\[\]]", "_", name)
ReplaceIllegal(name) ==
  [i \in 1..Len(name) |-> IF name[i] \in IllegalChars THEN "_" ELSE name[i]]

RECURSIVE RStripChars(_, _)
\* s.rstrip(chars)
RStripChars(x, chars) ==
  IF x # <<>> /\ x[Len(x)] \in chars THEN RStripChars(SubSeq(x, 1, Len(x) - 1), chars)
  ELSE x

\* s.strip(chars); str.strip() strips blanks
StripChars(x, chars) == RStripChars(LStrip(x, chars), chars)

\* x[:n], for any integer n
Prefix(x, n) ==
  IF n >= 0 THEN SubSeq(x, 1, IF n < Len(x) THEN n ELSE Len(x))
  ELSE SubSeq(x, 1, Len(x) + n)

\* base = "Sheet" if not base; return base[:31]
SheetOr(base) == Prefix(IF base = <<>> THEN <<"S", "h", "e", "e", "t">> ELSE base, 31)

\* sanitise_sheet_name(name)
sanitise_sheet_name(name) ==
  SheetOr(StripChars(StripChars(StripChars(ReplaceIllegal(name), {" "}), {"'"}), {" "}))

\* suffix = f" ({i})"
Suffix(i) == <<" ", "(">> \o IntToStr(i) \o <<")">>

\* trimmed, were the name cut to 31 characters before the suffix is added
Trimmed_NoRoom(name, i) == Prefix(name, 31) \o Suffix(i)

\* trimmed = name[: 31 - len(suffix)] + suffix
Trimmed(name, i) == Prefix(name, 31 - Len(Suffix(i))) \o Suffix(i)

(***************************************************************************)
(* Inputs                                                                  *)
(***************************************************************************)
SeqsUpTo(S, n) == UNION {[1..m -> S] : m \in 0..n}
StrList(q) == PyList([i \in 1..Len(q) |-> PyStr(q[i])])
\* an optional key: absent, or present with one of vals
Opt(k, vals) == {<<>>} \cup {<< <<k, x>> >> : x \in vals}

ReqNames == {<<"a">>, <<"b">>}
RequiredLists == {StrList(q) : q \in SeqsUpTo(ReqNames, MaxRequired)}
TypeNames == {PyStr(k_string), PyStr(k_integer)}
EnumLists ==
  { PyList(<<PyStr(<<"y">>), PyStr(<<"x">>)>>), PyList(<<PyStr(<<"x">>)>>),
    PyList(<<PyInt(1)>>), PyList(<<PyBool(TRUE)>>) }

\* schema fragments handed to conservative_merge
Fragments ==
  { PyDict(t \o r \o e) :
      t \in Opt(k_type, TypeNames),
      r \in Opt(k_required, RequiredLists),
      e \in Opt(k_enum, EnumLists) }

(***************************************************************************)
(* Specification SpecMerge: one call conservative_merge(a, b)              *)
(***************************************************************************)
NoWalker ==
  /\ root = None /\ ref_cache = PyDict(<<>>) /\ schema = None /\ base_path = <<>>
NoPointer == doc = None /\ pointer = <<>>
NoMerge == a = None /\ b = None
NoRows == raw_rows = None
NoTabs ==
  /\ used_sheet_names = {} /\ sheetnames = <<>> /\ sheet_base = <<>> /\ suffix_i = 0
NoCli ==
  /\ tool = "" /\ base_dir = "" /\ entries = <<>> /\ files = <<>> /\ file_idx = 0
  /\ any_failed = FALSE /\ generated_outputs = <<>> /\ subprocesses = <<>>
  /\ exit_status = -1
  /\ NoTabs

InitMerge ==
  /\ op = "init"
  /\ a \in Fragments
  /\ b \in Fragments
  /\ ret = None
  /\ NoPointer /\ NoWalker /\ NoRows /\ NoCli

ConservativeMerge ==
  /\ op = "init"
  /\ op' = "conservative_merge"
  /\ ret' = conservative_merge(a, b)
  /\ UNCHANGED <<cli_vars, raw_rows, a, b, doc, pointer, root, ref_cache, schema, base_path>>

NextMerge == ConservativeMerge

SpecMerge == InitMerge /\ [][NextMerge]_vars

(***************************************************************************)
(* Claims about conservative_merge                                         *)
(***************************************************************************)
\* x.get("required", [])
RequiredOf(x) == GetOr(x, k_required, PyList(<<>>))

\* C6: for all fragments A and B, conservative_merge(A, B).required equals
\* conservative_merge(B, A).required, as the same sorted list (a missing
\* required key counted as the empty list).
C6_RequiredCommutes ==
  op = "conservative_merge" =>
    RequiredOf(ret) = RequiredOf(conservative_merge(b, a))

\* C10: for every key k other than enum and required the result has overlay[k]
\* when k is only in the overlay and base[k] when k is in the base; no error is
\* raised and no key appears that neither input has.
C10_OtherKeysBaseWins ==
  op = "conservative_merge" =>
    /\ IsDict(ret)
    /\ Keys(ret) \subseteq Keys(a) \cup Keys(b)
    /\ \A k \in (Keys(a) \cup Keys(b)) \ {k_enum, k_required} :
         /\ Has(ret, k)
         /\ Get(ret, k) = IF Has(a, k) THEN Get(a, k) ELSE Get(b, k)

\* a merge in which base and overlay disagree on type
C10_Witness ==
  /\ op = "conservative_merge"
  /\ Has(a, k_type) /\ Has(b, k_type)
  /\ Get(a, k_type) # Get(b, k_type)
  /\ Get(ret, k_type) = Get(a, k_type)

\* the values of x's enum list (none when x has no enum list)
EnumValues(x) ==
  IF IsDict(x) /\ Has(x, k_enum) /\ IsList(Get(x, k_enum))
  THEN {Get(x, k_enum)[2][i] : i \in 1..Len(Get(x, k_enum)[2])} ELSE {}

\* C11: when base or overlay carries an enum list, the enum of
\* conservative_merge(base, overlay) is the union of the two value sets,
\* without duplicates and in a sorted order (by serialized value) that does
\* not depend on the order of the values in the inputs.
C11_EnumUnionSorted ==
  (op = "conservative_merge" /\ EnumValues(a) \cup EnumValues(b) # {}) =>
    /\ IsDict(ret) /\ Has(ret, k_enum) /\ IsList(Get(ret, k_enum))
    /\ LET e == Get(ret, k_enum)[2]
       IN /\ EnumValues(ret) = EnumValues(a) \cup EnumValues(b)
          /\ \A i, j \in 1..Len(e) : i < j => StrLess(Dumps(e[i]), Dumps(e[j]))

\* C12: merging the same overlay twice changes nothing:
\* conservative_merge(conservative_merge(a, b), b) = conservative_merge(a, b).
C12_MergeIdempotent ==
  (op = "conservative_merge" /\ ~IsRaise(ret)) => conservative_merge(ret, b) = ret

\* a merge that changed the base's enum and required, merged once more
C12_Witness ==
  /\ op = "conservative_merge"
  /\ Has(a, k_enum) /\ Has(b, k_enum) /\ Get(ret, k_enum) # Get(a, k_enum)
  /\ Has(a, k_required) /\ Has(b, k_required) /\ Get(ret, k_required) # Get(a, k_required)
  /\ conservative_merge(ret, b) = ret

(***************************************************************************)
(* Specification SpecRows: dedupe_rows(raw_rows), then sort_rows or         *)
(* group_by_status on its result, as main calls them                       *)
(***************************************************************************)
\* a row as walk_paths makes it
ErrorRow(status, code, desc, enums) ==
  PyDict(<< <<c_Status, PyStr(status)>>, <<c_ErrorCode, PyStr(code)>>,
            <<c_Description, PyStr(desc)>>, <<c_EnumValues, PyStr(enums)>> >>)

\* rows that differ in one cell, rows of one status with several codes (words,
\* numbers, a number written with leading zeros), a status that is no number
\* and a numeric status above 10**9
ErrorRows ==
  { ErrorRow(<<"4", "0", "4">>, <<"E", "1">>, <<"d">>, <<>>),
    ErrorRow(<<"d", "e", "f", "a", "u", "l", "t">>, <<"E", "1">>, <<"d">>, <<>>),
    ErrorRow(<<"4", "0", "4">>, <<>>, <<"S", "u", "c", "c", "e", "s", "s">>, <<>>),
    ErrorRow(<<"4", "0", "4">>, <<"E", "1">>, <<"d">>, <<"E", "1", ",", " ", "E", "2">>),
    ErrorRow(<<"4", "0", "4">>, <<"N", "O", "T", "_", "F", "O", "U", "N", "D">>, <<"d">>, <<>>),
    ErrorRow(<<"4", "0", "4">>, <<"G", "O", "N", "E">>, <<"d">>, <<>>),
    ErrorRow(<<"5", "0", "0">>, <<"1", "0">>, <<"d">>, <<>>),
    ErrorRow(<<"5", "0", "0">>, <<"7">>, <<"d">>, <<>>),
    ErrorRow(<<"5", "0", "0">>, <<"0", "0", "7">>, <<"d">>, <<>>),
    ErrorRow(<<"2", "0", "0", "0", "0", "0", "0", "0", "0", "0">>, <<"E", "1">>, <<"d">>, <<>>) }

InitRows ==
  /\ op = "init"
  /\ raw_rows \in {PyList(q) : q \in SeqsUpTo(ErrorRows, MaxRows)}
  /\ ret = None
  /\ NoMerge /\ NoPointer /\ NoWalker /\ NoCli

DedupeRows ==
  /\ op = "init"
  /\ op' = "dedupe_rows"
  /\ ret' = dedupe_rows(raw_rows)
  /\ UNCHANGED <<cli_vars, raw_rows, a, b, doc, pointer, root, ref_cache, schema, base_path>>

\* main: rows = sort_rows(rows), after the rows were deduplicated
SortRows ==
  /\ op = "dedupe_rows"
  /\ op' = "sort_rows"
  /\ ret' = sort_rows(ret)
  /\ UNCHANGED <<cli_vars, raw_rows, a, b, doc, pointer, root, ref_cache, schema, base_path>>

\* main: rows = group_by_status(rows), after the rows were deduplicated
GroupByStatus ==
  /\ op = "dedupe_rows"
  /\ op' = "group_by_status"
  /\ ret' = group_by_status(ret)
  /\ UNCHANGED <<cli_vars, raw_rows, a, b, doc, pointer, root, ref_cache, schema, base_path>>

NextRows == DedupeRows \/ SortRows \/ GroupByStatus

SpecRows == InitRows /\ [][NextRows]_vars

(***************************************************************************)
(* Claims about dedupe_rows                                                *)
(***************************************************************************)
\* the (Status, ErrorCode, Description, EnumValues) tuple of a row
TupleOf(r) ==
  <<Get(r, c_Status), Get(r, c_ErrorCode), Get(r, c_Description), Get(r, c_EnumValues)>>

RECURSIVE FirstSeen(_, _)
\* the raw_rows of rs from index i on whose tuple is not the tuple of an earlier row
FirstSeen(rs, i) ==
  IF i > Len(rs) THEN <<>>
  ELSE (IF \E j \in 1..(i - 1) : TupleOf(rs[j]) = TupleOf(rs[i]) THEN <<>>
        ELSE <<rs[i]>>) \o FirstSeen(rs, i + 1)

\* C20: dedupe_rows returns the input raw_rows without those whose (Status,
\* ErrorCode, Description, EnumValues) tuple occurred earlier, in first-seen
\* order; every distinct tuple of the input occurs exactly once in the output;
\* deduplicating the output again changes nothing.
C20_DedupeRows ==
  op = "dedupe_rows" =>
    /\ ret = PyList(FirstSeen(raw_rows[2], 1))
    /\ \A i \in 1..Len(raw_rows[2]) :
         Cardinality({j \in 1..Len(ret[2]) : TupleOf(ret[2][j]) = TupleOf(raw_rows[2][i])}) = 1
    /\ dedupe_rows(ret) = ret

\* a row that comes back after a different one, and raw_rows that differ in their
\* EnumValues only
C20_Witness ==
  /\ op = "dedupe_rows"
  /\ Len(raw_rows[2]) = 3 /\ raw_rows[2][1] = raw_rows[2][3] /\ raw_rows[2][1] # raw_rows[2][2]
  /\ Get(raw_rows[2][1], c_EnumValues) # Get(raw_rows[2][2], c_EnumValues)
  /\ ret = PyList(<<raw_rows[2][1], raw_rows[2][2]>>)

\* the rows given to sort_rows and group_by_status
Deduped == dedupe_rows(raw_rows)[2]

\* the set of the members of a sequence
Range(q) == {q[i] : i \in 1..Len(q)}

\* the non-empty ErrorCode values of the rows of rs with status st
CodesOf(rs, st) ==
  {Get(rs[i], c_ErrorCode)[2] : i \in {j \in 1..Len(rs) : Get(rs[j], c_Status)[2] = st}}
    \ {<<>>}

\* whether the codes of parts come numbers first, ascending, then the others
\* in lexical order
SmartOrder(parts) ==
  \A i, j \in 1..Len(parts) : i < j =>
    /\ ~(~IsIntLiteral(parts[i]) /\ IsIntLiteral(parts[j]))
    /\ (IsIntLiteral(parts[i]) /\ IsIntLiteral(parts[j]))
         => ParseInt(parts[i]) < ParseInt(parts[j])
    /\ (~IsIntLiteral(parts[i]) /\ ~IsIntLiteral(parts[j])) => StrLess(parts[i], parts[j])

\* C21: group_by_status returns one row per distinct Status of its input; the
\* ErrorCode of that row is the set of the non-empty ErrorCode values of the
\* input rows of that status, each once, joined by ", ", integer codes first
\* in ascending numeric order and the others after them in lexical order.
C21_GroupByStatus ==
  op = "group_by_status" =>
    /\ \A i \in 1..Len(Deduped) :
         Cardinality({j \in 1..Len(ret[2]) :
                        Get(ret[2][j], c_Status) = Get(Deduped[i], c_Status)}) = 1
    /\ \A j \in 1..Len(ret[2]) :
         /\ \E i \in 1..Len(Deduped) : Get(Deduped[i], c_Status) = Get(ret[2][j], c_Status)
         /\ LET parts == EnumParts(Get(ret[2][j], c_ErrorCode)[2])
            IN /\ Range(parts) = CodesOf(Deduped, Get(ret[2][j], c_Status)[2])
               /\ Len(parts) = Cardinality(Range(parts))
               /\ SmartOrder(parts)

\* the number of indexes of q that hold x
Count(q, x) == Cardinality({i \in 1..Len(q) : q[i] = x})

\* C22: sort_rows returns a permutation of its input in which the rows with an
\* integer Status are in ascending numeric order and every row with another
\* Status comes after every row with an integer Status, whatever the integer.
C22_SortRows ==
  op = "sort_rows" =>
    /\ Len(ret[2]) = Len(Deduped)
    /\ \A i \in 1..Len(Deduped) : Count(ret[2], Deduped[i]) = Count(Deduped, Deduped[i])
    /\ \A i, j \in 1..Len(ret[2]) : i < j =>
         LET si == Get(ret[2][i], c_Status)[2]
             sj == Get(ret[2][j], c_Status)[2]
         IN /\ ~(~IsIntLiteral(si) /\ IsIntLiteral(sj))
            /\ (IsIntLiteral(si) /\ IsIntLiteral(sj)) => ParseInt(si) <= ParseInt(sj)

(***************************************************************************)
(* Specification SpecCli: one run of a command-line tool on a directory    *)
(* argument: batch_oas3_agent (a step per subprocess), combine and         *)
(* compile_http_errors_from_oas                                            *)
(***************************************************************************)
Tools == {"batch_oas3_agent", "combine", "compile_http_errors_from_oas"}

\* a .json file, one with an upper-case suffix, a file of another kind and a
\* directory whose name ends in .json
Entries ==
  { <<"a", ".json", TRUE>>, <<"b", ".JSON", TRUE>>, <<"c", ".xlsx", TRUE>>,
    <<"d", ".json", FALSE>> }

\* the listings of a directory: no entry twice
Listings ==
  {q \in SeqsUpTo(Entries, MaxEntries) : \A i, j \in 1..Len(q) : q[i] = q[j] => i = j}

\* the rows scan_folder finds in the .json files of a directory
FolderRows ==
  { PyList(<<>>),
    PyList(<<ErrorRow(<<"4", "0", "4">>, <<"E", "1">>, <<"d">>, <<>>)>>),
    PyList(<<ErrorRow(<<"5", "0", "0">>, <<"7">>, <<"d">>, <<>>),
             ErrorRow(<<"4", "0", "4">>, <<"E", "1">>, <<"d">>, <<>>)>>) }

InitCli ==
  /\ op = "init"
  /\ tool \in Tools
  /\ base_dir \in {"dir", "file", "missing"}
  /\ entries \in IF is_dir(base_dir) THEN Listings ELSE {<<>>}
  /\ raw_rows \in IF tool = "compile_http_errors_from_oas"
                  THEN (IF is_dir(base_dir) /\ entries # <<>> THEN FolderRows
                        ELSE {PyList(<<>>)})
                  ELSE {None}
  /\ files = <<>> /\ file_idx = 0 /\ any_failed = FALSE
  /\ generated_outputs = <<>> /\ subprocesses = <<>> /\ exit_status = -1
  /\ ret = None
  /\ NoTabs
  /\ NoMerge /\ NoPointer /\ NoWalker

NoCall ==
  UNCHANGED <<a, b, doc, pointer, root, ref_cache, schema, base_path, raw_rows, tab_vars>>

\* main of batch_oas3_agent, up to the loop over the files
BatchMain ==
  /\ op = "init" /\ tool = "batch_oas3_agent"
  /\ IF ~is_dir(base_dir)
     THEN op' = "exit" /\ exit_status' = 1 /\ files' = files
     ELSE /\ files' = find_json_files(entries)
          /\ IF files' = <<>>
             THEN op' = "exit" /\ exit_status' = 0
             ELSE op' = "for file in files" /\ exit_status' = exit_status
  /\ file_idx' = 1
  /\ UNCHANGED <<tool, base_dir, entries, any_failed, generated_outputs, subprocesses, ret>>
  /\ NoCall

\* one turn of "for file in files": the agent is run on files[file_idx]
RunAgent ==
  /\ op = "for file in files"
  /\ \E outcome \in RunOutcomes :
       /\ subprocesses' = Append(subprocesses, <<AGENT_SCRIPT, files[file_idx], outcome>>)
       /\ generated_outputs' =
            IF outcome = "ok" THEN Append(generated_outputs, output_file(files[file_idx]))
            ELSE generated_outputs
       /\ any_failed' = (any_failed \/ outcome # "ok")
       /\ IF outcome = "FileNotFoundError" \/ file_idx = Len(files)
          THEN op' = "after the loop" /\ file_idx' = file_idx
          ELSE op' = op /\ file_idx' = file_idx + 1
  /\ UNCHANGED <<tool, base_dir, entries, files, exit_status, ret>>
  /\ NoCall

\* main of batch_oas3_agent after the loop: combine.py is run or skipped, and
\* main returns
RunCombine ==
  /\ op = "after the loop"
  /\ IF RunsCombine(any_failed)
     THEN \E outcome \in RunOutcomes :
            subprocesses' = Append(subprocesses, <<COMBINE_SCRIPT, <<>>, outcome>>)
     ELSE subprocesses' = subprocesses
  /\ op' = "exit" /\ exit_status' = 0
  /\ UNCHANGED <<tool, base_dir, entries, files, file_idx, any_failed, generated_outputs, ret>>
  /\ NoCall

\* main of combine: it returns when the directory is no directory, when no
\* .xlsx file or no sheet is found, and after it wrote the workbook; writing
\* the workbook can raise
CombineMain ==
  /\ op = "init" /\ tool = "combine"
  /\ IF ~is_dir(base_dir)
     THEN ret' = None /\ exit_status' = 0
     ELSE \E written \in BOOLEAN :
            IF written \/ list_excel_files(entries) = <<>>
            THEN ret' = None /\ exit_status' = 0
            ELSE ret' = Raise("OSError") /\ exit_status' = 1
  /\ op' = "exit"
  /\ UNCHANGED <<tool, base_dir, entries, files, file_idx, any_failed, generated_outputs,
                 subprocesses>>
  /\ NoCall

\* main of compile_http_errors_from_oas: scan_folder gives raw_rows (no row
\* when the folder is no directory: glob finds nothing), the rows are
\* deduplicated, grouped or sorted, and written; writing can raise
CompileMain ==
  /\ op = "init" /\ tool = "compile_http_errors_from_oas"
  /\ \E group \in BOOLEAN, written \in BOOLEAN :
       IF written
       THEN /\ ret' = IF group THEN group_by_status(dedupe_rows(raw_rows))
                      ELSE sort_rows(dedupe_rows(raw_rows))
            /\ exit_status' = 0
       ELSE ret' = Raise("OSError") /\ exit_status' = 1
  /\ op' = "exit"
  /\ UNCHANGED <<tool, base_dir, entries, files, file_idx, any_failed, generated_outputs,
                 subprocesses>>
  /\ NoCall

NextCli == BatchMain \/ RunAgent \/ RunCombine \/ CombineMain \/ CompileMain

SpecCli == InitCli /\ [][NextCli]_vars

(***************************************************************************)
(* Claims about the command-line tools                                     *)
(***************************************************************************)
\* the run did what the tool is for: the directory was one, no subprocess
\* failed and nothing was raised
Succeeded ==
  /\ is_dir(base_dir)
  /\ \A i \in 1..Len(subprocesses) : subprocesses[i][3] = "ok"
  /\ ~IsRaise(ret)

\* C23: a tool that takes an input directory ends with a non-zero exit status
\* when the directory is missing or is no directory, and with exit status 0
\* only on success
C23_ExitStatus ==
  op = "exit" =>
    /\ ~is_dir(base_dir) => exit_status # 0
    /\ exit_status = 0 => Succeeded

\* the positions of subprocesses at which combine.py was started
CombineRuns == {i \in 1..Len(subprocesses) : subprocesses[i][1] = COMBINE_SCRIPT}

\* C27: combine.py is started at most once, only after the agent ran for every
\* discovered .json file and only if every one of those runs succeeded; after
\* a failed agent run combine.py is never started, and when no .json file is
\* found no script is started
C27_CombineAfterAllSucceeded ==
  tool = "batch_oas3_agent" =>
    /\ Cardinality(CombineRuns) <= 1
    /\ \A k \in CombineRuns :
         /\ k = Len(find_json_files(entries)) + 1
         /\ \A i \in 1..(k - 1) :
              subprocesses[i] = <<AGENT_SCRIPT, find_json_files(entries)[i], "ok">>
    /\ (\E i \in 1..Len(subprocesses) :
          subprocesses[i][1] = AGENT_SCRIPT /\ subprocesses[i][3] # "ok")
         => CombineRuns = {}
    /\ find_json_files(entries) = <<>> => subprocesses = <<>>

\* witness of C27: combine.py was started after two agent runs
C27_Witness ==
  /\ tool = "batch_oas3_agent" /\ op = "exit"
  /\ Len(files) = 2 /\ CombineRuns = {3}

(***************************************************************************)
(* Specification SpecTabs: main of merge_dir_to_tabs names one tab per     *)
(* file with sanitise_sheet_name and dedupe_sheet_name (a step per turn of *)
(* its loop) against used_sheet_names                                      *)
(***************************************************************************)
\* 27 characters
LongStem == <<"L", "L", "L", "L", "L", "L", "L", "L", "L", "L", "L", "L", "L", "L", "L", "L", "L", "L", "L", "L", "L", "L", "L", "L", "L", "L", "L">>

\* file stems: a plain one, one that looks deduplicated, two that are equal
\* once sanitised, one of quotes and blanks only, the default name, one in
\* quotes and blanks, two longer than 31 characters with the same first 31,
\* and one of 31 characters that looks like their deduplicated name
Stems ==
  { <<"a">>, <<"a", " ", "(", "2", ")">>, <<"a", ":", "b">>, <<"a", "_", "b">>,
    <<" ", "'", " ", "'">>, <<"S", "h", "e", "e", "t">>, <<" ", "'", "a", "'", " ">>,
    LongStem \o <<"L", "L", "L", "L", "X", "Y">>, LongStem \o <<"L", "L", "L", "L", "Z">>,
    LongStem \o <<" ", "(", "2", ")">> }

InitTabs ==
  /\ op = "init"
  /\ tool = "merge_dir_to_tabs"
  /\ files \in SeqsUpTo(Stems, MaxTabs)
  /\ file_idx = 1
  /\ base_dir = "dir" /\ entries = <<>> /\ any_failed = FALSE
  /\ generated_outputs = <<>> /\ subprocesses = <<>> /\ exit_status = -1
  /\ NoTabs
  /\ ret = None
  /\ NoMerge /\ NoPointer /\ NoWalker /\ NoRows

NoBatch ==
  UNCHANGED <<a, b, doc, pointer, root, ref_cache, schema, base_path, raw_rows, ret,
              tool, base_dir, entries, files, any_failed, generated_outputs, subprocesses>>

\* main after find_files: no file, or on to the loop over the files
TabsMain ==
  /\ op = "init" /\ tool = "merge_dir_to_tabs"
  /\ IF files = <<>> THEN op' = "exit" /\ exit_status' = 0
     ELSE op' = "for p in files" /\ exit_status' = exit_status
  /\ UNCHANGED <<file_idx, tab_vars>>
  /\ NoBatch

\* the next file, or the end of main when none is left
NextFile(idx) ==
  IF idx <= Len(files)
  THEN op' = "for p in files" /\ file_idx' = idx /\ exit_status' = exit_status
  ELSE /\ op' = "exit" /\ file_idx' = idx
       /\ exit_status' = IF sheetnames' = <<>> THEN 1 ELSE 0

\* one turn of "for p in files": the file cannot be read and is skipped, or its
\* name is sanitised and dedupe_sheet_name is called, which returns the name
\* when it is not in used
ReadFile ==
  /\ op = "for p in files" /\ tool = "merge_dir_to_tabs"
  /\ \E readable \in BOOLEAN :
       IF ~readable
       THEN /\ UNCHANGED tab_vars
            /\ NextFile(file_idx + 1)
       ELSE /\ sheet_base' = sanitise_sheet_name(files[file_idx])
            /\ IF sheet_base' \notin used_sheet_names
               THEN /\ used_sheet_names' = used_sheet_names \cup {sheet_base'}
                    /\ sheetnames' = Append(sheetnames, sheet_base')
                    /\ suffix_i' = suffix_i
                    /\ NextFile(file_idx + 1)
               ELSE /\ suffix_i' = 2
                    /\ op' = "while True"
                    /\ UNCHANGED <<used_sheet_names, sheetnames, file_idx, exit_status>>
  /\ NoBatch

\* one turn of "while True" in dedupe_sheet_name
DedupeTurn ==
  /\ op = "while True"
  /\ IF Trimmed(sheet_base, suffix_i) \notin used_sheet_names
     THEN /\ used_sheet_names' = used_sheet_names \cup {Trimmed(sheet_base, suffix_i)}
          /\ sheetnames' = Append(sheetnames, Trimmed(sheet_base, suffix_i))
          /\ suffix_i' = suffix_i
          /\ NextFile(file_idx + 1)
     ELSE /\ suffix_i' = suffix_i + 1
          /\ UNCHANGED <<op, used_sheet_names, sheetnames, file_idx, exit_status>>
  /\ UNCHANGED sheet_base
  /\ NoBatch

NextTabs == TabsMain \/ ReadFile \/ DedupeTurn

SpecTabs == InitTabs /\ [][NextTabs]_vars /\ WF_vars(NextTabs)

(***************************************************************************)
(* Claims about the sheet names of merge_dir_to_tabs                       *)
(***************************************************************************)
\* the names returned so far are pairwise distinct, not empty, at most 31
\* characters long and hold none of : \ / ? * [ ]
TabNamesValid ==
  /\ \A i, j \in 1..Len(sheetnames) : sheetnames[i] = sheetnames[j] => i = j
  /\ \A i \in 1..Len(sheetnames) :
       /\ sheetnames[i] # <<>>
       /\ Len(sheetnames[i]) <= 31
       /\ \A j \in 1..Len(sheetnames[i]) : sheetnames[i][j] \notin IllegalChars

\* C28: the tab names returned for any sequence of files are pairwise distinct,
\* not empty, at most 31 characters long, hold none of : \ / ? * [ ], and every
\* dedupe_sheet_name call returns (the run reaches its end).
C28_TabNames == [](tool = "merge_dir_to_tabs" => TabNamesValid) /\ <>(op = "exit")

\* witness of C28: three files with the same long name got three tab names
C28_Witness ==
  /\ tool = "merge_dir_to_tabs" /\ op = "exit" /\ Len(sheetnames) = 3
  /\ sheetnames[1] = LongStem \o <<"L", "L", "L", "L">>
  /\ sheetnames[2] = LongStem \o <<" ", "(", "2", ")">>
  /\ sheetnames[3] = LongStem \o <<" ", "(", "3", ")">>

(***************************************************************************)
(* Specification SpecPointer: one call resolve_json_pointer(doc, pointer)  *)
(***************************************************************************)
\* escaped reference tokens the generated pointers are built from
Segments ==
  { <<>>, <<"a">>, <<"#", "a">>, <<"0">>, <<"1">>, <<"~", "1">>, <<"~", "0", "1">> }

RECURSIVE JoinSegments(_)
\* "/" + segment, for every segment of q
JoinSegments(q) ==
  IF q = <<>> THEN <<>> ELSE <<"/">> \o Head(q) \o JoinSegments(Tail(q))

\* local pointers of at most MaxSegments segments, and three that are not local
Pointers ==
  {<<"#">> \o JoinSegments(q) : q \in SeqsUpTo(Segments, MaxSegments)}
    \cup {<<>>, <<"a">>, <<"/", "a">>}

Documents ==
  { PyDict(<< << <<>>, PyDict(<< << <<"a">>, PyInt(1) >>, << <<>>, PyInt(5) >> >>) >>,
              << <<"a">>, PyDict(<< << <<>>, PyInt(2) >>, << <<"a">>, PyInt(3) >>,
                                    << <<"#", "a">>, PyInt(7) >> >>) >>,
              << <<"#", "a">>, PyInt(4) >>,
              << <<"/">>, PyInt(6) >>,
              << <<"~", "1">>, PyInt(8) >>,
              << <<"0">>, PyInt(9) >> >>),
    PyList(<< PyDict(<< << <<"a">>, PyInt(1) >> >>), PyList(<<PyInt(2), PyInt(3)>>) >>),
    PyDict(<< << <<"a">>, PyList(<<PyInt(10), PyDict(<< << <<>>, PyInt(11) >> >>)>>) >>,
              << <<>>, PyStr(<<"s">>) >> >>),
    PyInt(5) }

InitPointer ==
  /\ op = "init"
  /\ doc \in Documents
  /\ pointer \in Pointers
  /\ ret = None
  /\ NoMerge /\ NoWalker /\ NoRows /\ NoCli

ResolveJsonPointer ==
  /\ op = "init"
  /\ op' = "resolve_json_pointer"
  /\ ret' = resolve_json_pointer(doc, pointer)
  /\ UNCHANGED <<cli_vars, raw_rows, a, b, doc, pointer, root, ref_cache, schema, base_path>>

NextPointer == ResolveJsonPointer

SpecPointer == InitPointer /\ [][NextPointer]_vars

(***************************************************************************)
(* Claims about resolve_json_pointer                                       *)
(***************************************************************************)
\* a local pointer in fragment form: '#' followed by zero or more '/segment',
\* every '~' of it starting an escape ~0 or ~1
ValidPointer(p) ==
  /\ p # <<>> /\ Head(p) = "#"
  /\ Len(p) > 1 => p[2] = "/"
  /\ \A i \in 1..Len(p) : p[i] = "~" => (i < Len(p) /\ p[i + 1] \in {"0", "1"})

\* the unescaped segments of a valid pointer: the text after '#', cut at each '/'
PointerSegments(p) ==
  LET pieces == Split(Tail(p), "/")
  IN [i \in 1..(Len(pieces) - 1) |-> Unescape(pieces[i + 1])]

Undefined == <<"undefined", 0>>

RECURSIVE IndexBy(_, _)
\* d indexed successively by segs (mapping key, or integer sequence index)
IndexBy(d, segs) ==
  IF segs = <<>> THEN d
  ELSE IF IsDict(d) /\ Has(d, Head(segs)) THEN IndexBy(Get(d, Head(segs)), Tail(segs))
  ELSE IF /\ IsList(d) /\ IsIntLiteral(Head(segs))
          /\ 0 <= ParseInt(Head(segs)) /\ ParseInt(Head(segs)) < Len(d[2])
       THEN IndexBy(d[2][ParseInt(Head(segs)) + 1], Tail(segs))
  ELSE Undefined

\* C7: for every document and every valid local pointer p whose segments index
\* a subtree of the document, resolve_json_pointer(doc, p) returns that subtree.
C7_ResolvesIndexedSubtree ==
  (/\ op = "resolve_json_pointer"
   /\ ValidPointer(pointer)
   /\ IndexBy(doc, PointerSegments(pointer)) # Undefined)
  => ret = IndexBy(doc, PointerSegments(pointer))

RECURSIVE FailureOf(_, _)
\* how indexing d successively by segs fails: "PointerNotFound" for a key
\* absent from a mapping or an index out of range, "InvalidPointerSegment" for
\* a non-numeric segment on a sequence or a segment on a scalar; "none" when
\* every segment indexes
FailureOf(d, segs) ==
  IF segs = <<>> THEN "none"
  ELSE IF IsDict(d)
  THEN IF Has(d, Head(segs)) THEN FailureOf(Get(d, Head(segs)), Tail(segs))
       ELSE "PointerNotFound"
  ELSE IF IsList(d)
  THEN IF ~IsIntLiteral(Head(segs)) THEN "InvalidPointerSegment"
       ELSE IF 0 <= ParseInt(Head(segs)) /\ ParseInt(Head(segs)) < Len(d[2])
       THEN FailureOf(d[2][ParseInt(Head(segs)) + 1], Tail(segs))
       ELSE "PointerNotFound"
  ELSE "InvalidPointerSegment"

\* the error kind of an outcome, told by the exception's class and message;
\* "none" for a returned value
ErrorKind(r) ==
  IF ~IsRaise(r) THEN "none"
  ELSE IF r[2][1] = "ValueError" THEN "UnsupportedReferenceKind"
  ELSE IF r[2][2] \in {"JSON pointer not found", "JSON pointer array index out of range"}
  THEN "PointerNotFound"
  ELSE IF r[2][2] \in {"JSON pointer expected integer index for array",
                       "JSON pointer cannot descend into non-container"}
  THEN "InvalidPointerSegment"
  ELSE "other"

\* C15: resolve_json_pointer returns the document for '#'; it fails with
\* UnsupportedReferenceKind for a pointer that does not start with '#', and for
\* a valid local pointer one of whose segments does not index it fails with
\* PointerNotFound (absent key, index out of range) or InvalidPointerSegment
\* (non-numeric segment on a sequence, segment on a scalar).
C15_PointerErrors ==
  op = "resolve_json_pointer" =>
    /\ pointer = <<"#">> => ret = doc
    /\ ~StartsWith(pointer, <<"#">>) => ErrorKind(ret) = "UnsupportedReferenceKind"
    /\ (ValidPointer(pointer) /\ FailureOf(doc, PointerSegments(pointer)) # "none") =>
         ErrorKind(ret) = FailureOf(doc, PointerSegments(pointer))

(***************************************************************************)
(* Specification SpecSchema: calls of SchemaWalker.deref,                  *)
(* flatten_composites and iter_elements on one walker over the document    *)
(* root, each with the argument schema.                                    *)
(***************************************************************************)
s_defs == <<"d", "e", "f", "s">>
s_id == <<"i", "d">>
s_list == <<"l", "i", "s", "t">>
\* "#/defs/" + name
DefsRef(name) == <<"#", "/">> \o s_defs \o <<"/">> \o name

LeafString == PyDict(<< <<k_type, PyStr(k_string)>> >>)
LeafInteger == PyDict(<< <<k_type, PyStr(k_integer)>> >>)
RefTo(p) == PyDict(<< <<k_ref, PyStr(p)>> >>)

\* the document: A is an object, B refers to A with a sibling, C reaches itself
\* through allOf and L through $ref, D has properties of its own and an allOf
RootDoc ==
  PyDict(<< <<s_defs, PyDict(<<
    << <<"A">>, PyDict(<< <<k_type, PyStr(k_object)>>,
                         <<k_properties, PyDict(<< << <<"x">>, LeafString >> >>)>>,
                         <<k_required, StrList(<< <<"x">> >>)>> >>) >>,
    << <<"B">>, PyDict(<< <<k_ref, PyStr(DefsRef(<<"A">>))>>,
                         <<k_description, PyStr(<<"d">>)>> >>) >>,
    << <<"C">>, PyDict(<< <<k_allOf, PyList(<<RefTo(DefsRef(<<"C">>))>>)>> >>) >>,
    << <<"L">>, RefTo(DefsRef(<<"L">>)) >>,
    << <<"D">>, PyDict(<< <<k_properties, PyDict(<< << <<"p">>, LeafString >> >>)>>,
                         <<k_required, StrList(<< <<"p">> >>)>>,
                         <<k_allOf, PyList(<<
                            PyDict(<< <<k_properties,
                                        PyDict(<< << <<"q">>, LeafInteger >> >>)>>,
                                      <<k_required, StrList(<< <<"q">> >>)>> >>) >>)>> >>) >>
    >>)>> >>)

\* injective sequences over S of at most n members
DistinctSeqsUpTo(S, n) ==
  {q \in SeqsUpTo(S, n) : \A i, j \in 1..Len(q) : q[i] = q[j] => i = j}

\* property names, among them names holding '.' and '[]'
PropNames == {<<"a">>, <<"b">>, <<"a", ".", "b">>, <<"a", "[", "]">>}
\* the schema declared for a property; b carries a required list of its own
SubSchema(name) ==
  IF name = <<"b">>
  THEN PyDict(<< <<k_type, PyStr(k_integer)>>, <<k_required, StrList(<< <<"b">> >>)>> >>)
  ELSE LeafString
PropMaps ==
  {PyDict([i \in 1..Len(q) |-> <<q[i], SubSchema(q[i])>>]) :
     q \in DistinctSeqsUpTo(PropNames, MaxProps)}

\* the required lists of a generated object schema
ObjectRequired == {StrList(<<>>)} \cup {StrList(<<n>>) : n \in ReqNames}

\* object schemas whose properties are leaves
ObjectSchemas ==
  { PyDict(<< <<k_type, PyStr(k_object)>> >> \o p \o r) :
      p \in Opt(k_properties, PropMaps),
      r \in Opt(k_required, ObjectRequired) }

\* branches of a composite
Branches ==
  { PyDict(<< <<k_type, PyStr(k_object)>>,
              <<k_properties, PyDict(<< << <<"x">>, LeafString >> >>)>>,
              <<k_required, StrList(<< <<"x">> >>)>> >>),
    PyDict(<< <<k_properties, PyDict(<< << <<"y">>, LeafInteger >> >>)>> >>),
    PyDict(<< <<k_type, PyStr(k_string)>>,
              <<k_enum, StrList(<< <<"y">>, <<"x">> >>)>>,
              <<k_required, StrList(<< <<"b">>, <<"a">> >>)>> >>),
    RefTo(DefsRef(<<"B">>)),
    RefTo(DefsRef(<<"D">>)) }

CompositeKeys == {k_allOf, k_anyOf, k_oneOf}

CompositeSchemas ==
  { PyDict(own \o << <<key, PyList(br)>> >>) :
      own \in {<<>>, << <<k_properties, PyDict(<< << <<"a">>, LeafString >> >>)>> >>},
      key \in CompositeKeys,
      br \in SeqsUpTo(Branches, MaxBranches) }

\* schemas with several composites whose branches give description, format,
\* pattern and type different values; the last has its keys in reverse order
PrecedenceSchemas ==
  { PyDict(own \o x \o y \o z) :
      own \in {<<>>, << <<k_description, PyStr(<<"o", "w", "n">>)>> >>},
      x \in Opt(k_allOf, {PyList(<< PyDict(<< <<k_description, PyStr(<<"a", "1">>)>>, <<k_format, PyStr(<<"f", "1">>)>>, <<k_title, PyStr(<<"t", "1">>)>> >>),
                                   PyDict(<< <<k_description, PyStr(<<"a", "2">>)>>, <<k_format, PyStr(<<"f", "2">>)>>, <<k_pattern, PyStr(<<"p", "2">>)>> >>) >>)}),
      y \in Opt(k_anyOf, {PyList(<< PyDict(<< <<k_description, PyStr(<<"n", "1">>)>>, <<k_pattern, PyStr(<<"p", "3">>)>>, <<k_type, PyStr(<<"s", "t", "r", "i", "n", "g">>)>> >>) >>)}),
      z \in Opt(k_oneOf, {PyList(<< PyDict(<< <<k_description, PyStr(<<"o", "1">>)>>, <<k_type, PyStr(<<"i", "n", "t", "e", "g", "e", "r">>)>> >>) >>)}) }
  \cup
  { PyDict(<< <<k_oneOf, PyList(<< PyDict(<< <<k_description, PyStr(<<"o", "1">>)>>, <<k_type, PyStr(<<"i", "n", "t", "e", "g", "e", "r">>)>> >>) >>)>>,
              <<k_anyOf, PyList(<< PyDict(<< <<k_description, PyStr(<<"n", "1">>)>>, <<k_type, PyStr(<<"s", "t", "r", "i", "n", "g">>)>> >>) >>)>>,
              <<k_allOf, PyList(<< PyDict(<< <<k_description, PyStr(<<"a", "1">>)>> >>) >>)>> >>) }

\* references that resolve to nothing: no such node, not a local pointer
DanglingRefs == { <<"#", "/", "n", "o", "p", "e">>, <<"h", "t", "t", "p", ":", "/", "/", "x">> }

RefSchemas ==
  { PyDict(<< <<k_ref, PyStr(p)>> >> \o sib) :
      p \in {DefsRef(<<"A">>), DefsRef(<<"B">>), DefsRef(<<"C">>), DefsRef(<<"L">>),
             DefsRef(<<"D">>)} \cup DanglingRefs,
      sib \in {<<>>, << <<k_description, PyStr(<<"e">>)>> >>,
               << <<k_required, StrList(<< <<"b">> >>)>> >>,
               << <<k_required, PyList(<<>>)>> >>,
               << <<k_type, PyStr(k_string)>>, <<k_enum, StrList(<< <<"y">>, <<"x">> >>)>> >>,
               << <<k_enum, PyList(<< StrList(<< <<"x">> >>) >>)>> >>} }

\* {type: array, items: {type: object, properties: {id: {type: string}}}}
ArrayOfObjects ==
  PyDict(<< <<k_type, PyStr(k_array)>>,
            <<k_items, PyDict(<< <<k_type, PyStr(k_object)>>,
                                 <<k_properties, PyDict(<< <<s_id, LeafString>> >>)>> >>)>> >>)

ArraySchemas ==
  { ArrayOfObjects,
    PyDict(<< <<k_type, PyStr(k_array)>>, <<k_items, PyList(<<LeafString, LeafInteger>>)>> >>),
    PyDict(<< <<k_type, PyStr(k_array)>>, <<k_items, RefTo(DefsRef(<<"B">>))>> >>),
    PyDict(<< <<k_properties, PyDict(<< << <<"a">>, PyDict(<< <<k_items, LeafString>> >>) >>,
                                         << <<"a", "[", "]">>, LeafString >> >>)>> >>) }

\* schemas that reach a dangling reference in a property (after a property
\* that has a record), in items, in additionalProperties and in a branch
DanglingSchemas ==
  UNION { { PyDict(<< <<k_properties, PyDict(<< << <<"a">>, LeafString >>,
                                                 << <<"b">>, RefTo(p) >> >>)>> >>),
            PyDict(<< <<k_type, PyStr(k_array)>>, <<k_items, RefTo(p)>> >>),
            PyDict(<< <<k_properties, PyDict(<< << <<"a">>, LeafString >> >>)>>,
                      <<k_additionalProperties, RefTo(p)>> >>),
            PyDict(<< <<k_anyOf, PyList(<<LeafString, RefTo(p)>>)>> >>) } :
          p \in DanglingRefs }

\* an enum out of order
UnsortedEnum ==
  PyDict(<< <<k_type, PyStr(k_string)>>, <<k_enum, StrList(<< <<"y">>, <<"x">> >>)>> >>)

\* a map whose declared property is named '*', an object with a required
\* property and additionalProperties, a schema without composites that
\* conservative_merge would reorder, and a composite that reaches itself
\* an object whose properties are an object (with properties,
\* additionalProperties and items of its own) and a tuple-typed array
NestedObject ==
  PyDict(<< <<k_type, PyStr(k_object)>>,
            <<k_properties,
              PyDict(<< << <<"o">>,
                           PyDict(<< <<k_type, PyStr(k_object)>>,
                                     <<k_properties, PyDict(<< << <<"x">>, LeafString >> >>)>>,
                                     <<k_additionalProperties, LeafInteger>>,
                                     <<k_items, LeafString>> >>) >>,
                        << <<"t">>,
                           PyDict(<< <<k_type, PyStr(k_array)>>,
                                     <<k_items, PyList(<<LeafString,
                                                         RefTo(DefsRef(<<"B">>))>>)>> >>) >>
                     >>)>> >>)

\* an object-typed property whose name is the empty string
EmptyName ==
  PyDict(<< <<k_type, PyStr(k_object)>>,
            <<k_properties,
              PyDict(<< << <<>>,
                           PyDict(<< <<k_type, PyStr(k_object)>>,
                                     <<k_properties, PyDict(<< << <<"x">>, LeafString >> >>)>>
                                  >>) >>,
                        << <<"a">>, LeafString >> >>)>> >>)

OtherSchemas ==
  { PyDict(<< <<k_type, PyStr(k_object)>>,
              <<k_properties, PyDict(<< << <<"*">>, LeafString >> >>)>>,
              <<k_additionalProperties, LeafString>> >>),
    PyDict(<< <<k_type, PyStr(k_object)>>,
              <<k_properties, PyDict(<< << <<"a">>, LeafString >> >>)>>,
              <<k_required, StrList(<< <<"a">> >>)>>,
              <<k_additionalProperties, LeafInteger>> >>),
    UnsortedEnum,
    PyDict(<< <<k_allOf, PyList(<<RefTo(DefsRef(<<"C">>))>>)>> >>),
    NestedObject, EmptyName } \cup DanglingSchemas

Schemas ==
  ObjectSchemas \cup CompositeSchemas \cup RefSchemas \cup ArraySchemas \cup OtherSchemas
    \cup PrecedenceSchemas

BasePaths == {<<>>, s_list, <<"a">>}

InitSchema ==
  /\ op = "init"
  /\ root = RootDoc
  /\ ref_cache = PyDict(<<>>)
  /\ schema \in Schemas
  /\ base_path = <<>>
  /\ ret = None
  /\ NoMerge /\ NoPointer /\ NoRows /\ NoCli

WalkerOps == {"deref", "flatten_composites", "iter_elements"}

\* the walker object
Self == [root |-> root, ref_cache |-> ref_cache]

\* the value a method call leaves in ret, and the walker it leaves
Returns(name, r) ==
  /\ op' = name
  /\ ret' = r.val
  /\ root' = r.self.root
  /\ ref_cache' = r.self.ref_cache

Deref ==
  /\ op \in {"init"} \cup WalkerOps
  /\ Returns("deref", deref(Self, schema, 1))
  /\ UNCHANGED <<cli_vars, raw_rows, a, b, doc, pointer, schema, base_path>>

FlattenComposites ==
  /\ op \in {"init"} \cup WalkerOps
  /\ Returns("flatten_composites", flatten_composites(Self, schema, 1))
  /\ UNCHANGED <<cli_vars, raw_rows, a, b, doc, pointer, schema, base_path>>

IterElements ==
  \E bp \in BasePaths :
    /\ op \in {"init"} \cup WalkerOps
    /\ base_path' = bp
    /\ Returns("iter_elements", iter_elements(Self, schema, bp, 1))
    /\ UNCHANGED <<cli_vars, raw_rows, a, b, doc, pointer, schema>>

\* the data dictionary agent expands schema against the document root
ExpandCombinators ==
  /\ op = "init"
  /\ op' = "expand_combinators"
  /\ ret' = expand_combinators(root, schema, 1).val
  /\ schema' = expand_combinators(root, schema, 1).schema
  /\ root' = expand_combinators(root, schema, 1).doc
  /\ UNCHANGED <<cli_vars, raw_rows, a, b, doc, pointer, ref_cache, base_path>>

s_root == <<"r", "o", "o", "t">>
\* the input file: the document with schema as its member "root"
DataFile(s) == PyDict(RootDoc[2] \o << <<s_root, s>> >>)
\* values of --root-pointer: the schema, the whole file, a node that is absent
RootPointers == { <<"#", "/">> \o s_root, <<"#">>, <<"#", "/", "n", "o", "p", "e">> }

\* one run of extract_schema_to_csv on the input file
Main ==
  \E rp \in RootPointers :
    /\ op = "init"
    /\ op' = "main"
    /\ doc' = DataFile(schema)
    /\ pointer' = rp
    /\ ret' = main(DataFile(schema), rp)
    /\ UNCHANGED <<cli_vars, raw_rows, a, b, root, ref_cache, schema, base_path>>

\* the OpenAPI document whose only component schema, S, is s
AgentDoc(s) ==
  PyDict(RootDoc[2] \o
         << <<k_components, PyDict(<< <<k_schemas, PyDict(<< << <<"S">>, s >> >>)>> >>)>> >>)

\* one run of build_dictionary
BuildDictionary ==
  /\ op = "init"
  /\ op' = "build_dictionary"
  /\ doc' = AgentDoc(schema)
  /\ ret' = build_dictionary(AgentDoc(schema))
  /\ UNCHANGED <<cli_vars, raw_rows, a, b, pointer, root, ref_cache, schema, base_path>>

NextSchema ==
  Deref \/ FlattenComposites \/ IterElements \/ ExpandCombinators \/ Main \/ BuildDictionary

SpecSchema == InitSchema /\ [][NextSchema]_vars

(***************************************************************************)
(* Claims about flatten_composites                                         *)
(***************************************************************************)
\* {allOf: [{type: object, properties: {x: {type: string}}, required: [x]},
\*          {properties: {y: {type: integer}}}]}
UnionExample ==
  PyDict(<< <<k_allOf, PyList(<<
    PyDict(<< <<k_type, PyStr(k_object)>>,
              <<k_properties, PyDict(<< << <<"x">>, LeafString >> >>)>>,
              <<k_required, StrList(<< <<"x">> >>)>> >>),
    PyDict(<< <<k_properties, PyDict(<< << <<"y">>, LeafInteger >> >>)>> >>) >>)>> >>)

\* the names of the properties a schema declares itself
DeclaredProperties(s) ==
  IF IsDict(s) /\ Has(s, k_properties) /\ IsDict(Get(s, k_properties))
  THEN Keys(Get(s, k_properties)) ELSE {}

\* the branches of the composites of s that are written in place (no $ref)
InlineBranches(s) ==
  UNION { {Get(s, key)[2][i] : i \in 1..Len(Get(s, key)[2])} :
            key \in {k \in CompositeKeys : Has(s, k) /\ IsList(Get(s, k))} }

\* C1: flatten_composites unions the branches: every property declared by a
\* branch of an allOf / anyOf / oneOf of the node is a property of the expanded
\* schema; the example of two allOf branches declaring x (required) and y
\* expands to properties exactly {x, y} and required [x].
C1_UnionsBranches ==
  (op = "flatten_composites" /\ IsDict(schema) /\ ~Has(schema, k_ref) /\ IsDict(ret)) =>
    /\ \A br \in InlineBranches(schema) :
         (IsDict(br) /\ ~Has(br, k_ref)) =>
           DeclaredProperties(br) \subseteq DeclaredProperties(ret)
    /\ schema = UnionExample =>
         /\ DeclaredProperties(ret) = {<<"x">>, <<"y">>}
         /\ GetOr(ret, k_required, None) = StrList(<< <<"x">> >>)

\* C2: the schema returned by flatten_composites has none of the keys allOf,
\* anyOf, oneOf at its top level.
C2_NoCompositeKeys ==
  (op = "flatten_composites" /\ IsDict(ret)) => Keys(ret) \cap CompositeKeys = {}

\* C8: expansion is idempotent: for every schema on which flatten_composites
\* returns, flatten_composites of the returned schema (on the same walker)
\* returns a schema equal to it.
C8_FlattenIdempotent ==
  (op = "flatten_composites" /\ ~IsRaise(ret)) =>
    PyEq(flatten_composites(Self, ret, 1).val, ret)

\* an expansion that merged branch keys into the node, expanded once more
C8_Witness ==
  /\ op = "flatten_composites"
  /\ IsDict(ret)
  /\ InlineBranches(ret) # {}
  /\ ~PyEq(ret, schema)
  /\ PyEq(flatten_composites(Self, ret, 1).val, ret)

\* C9: for every schema (a mapping) whose top level has none of $ref, allOf,
\* anyOf, oneOf, flatten_composites and expand_combinators each return a
\* schema equal to their input.
C9_IdentityWithoutComposites ==
  (/\ op \in {"flatten_composites", "expand_combinators"}
   /\ IsDict(schema)
   /\ Keys(schema) \cap ({k_ref} \cup CompositeKeys) = {}) =>
    PyEq(ret, schema)

\* a schema without composites whose enum is out of order, returned as it is
C9_Witness ==
  /\ op = "flatten_composites"
  /\ schema = UnsortedEnum
  /\ ~PyEq(conservative_merge(PyDict(<<>>), schema), schema)
  /\ PyEq(ret, schema)

C14_AgentLeavesInputs ==
  [][op' = "expand_combinators" => (root' = root /\ schema' = schema)]_vars

\* whether s holds a $ref that resolves to nothing
ReachesDangling(s) == \E p \in DanglingRefs : IsSubstring(p, Dumps(s))

\* C16: when a $ref reached while flattening (in the root, a property, items,
\* additionalProperties or a composite branch) cannot be resolved,
\* iter_elements returns no records (it raises, the records made so far are
\* lost), and a run of main on that schema writes no CSV and exits non-zero.
C16_DanglingRefIsFatal ==
  ReachesDangling(schema) =>
    /\ op = "iter_elements" => IsRaise(ret)
    /\ (op = "main" /\ pointer = <<"#", "/">> \o s_root) =>
         (Get(ret, s_exit) # PyInt(0) /\ Get(ret, s_csv) = None)

\* a run whose second property holds the dangling reference
C16_Witness ==
  /\ op = "main" /\ pointer = <<"#", "/">> \o s_root
  /\ ReachesDangling(schema)
  /\ Has(schema, k_properties) /\ Len(Get(schema, k_properties)[2]) = 2
  /\ Get(ret, s_exit) = PyInt(1) /\ Get(ret, s_csv) = None

\* the target of the $ref of s, dereferenced transitively: what a new walker
\* returns for the reference alone
TargetOf(s) == deref(SchemaWalker(root), PyDict(<< <<k_ref, Get(s, k_ref)>> >>), 1).val

\* the keys of s other than $ref
Siblings(s) == PyDict(SelectPairs(s[2], Keys(s) \ {k_ref}))

\* C18: deref of a node {$ref: p, siblings} whose p has a target returns that
\* target (dereferenced transitively) with the siblings merged as overlay: a
\* mapping without $ref that has every key of the target and of the siblings,
\* with the target's value for the keys the target has, the sibling's value
\* for the others, and the union of both for enum and required.
C18_DerefMergesSiblings ==
  ( /\ op = "deref" /\ IsDict(schema) /\ Has(schema, k_ref)
    /\ IsDict(TargetOf(schema)) )
  => /\ IsDict(ret) /\ ~Has(ret, k_ref)
     /\ Keys(ret) = Keys(TargetOf(schema)) \cup Keys(Siblings(schema))
     /\ \A k \in Keys(ret) \ {k_enum, k_required} :
          Get(ret, k) = IF Has(TargetOf(schema), k) THEN Get(TargetOf(schema), k)
                        ELSE Get(schema, k)
     /\ EnumValues(ret) = EnumValues(TargetOf(schema)) \cup EnumValues(schema)
     /\ {RequiredOf(ret)[2][i] : i \in 1..Len(RequiredOf(ret)[2])}
          = {RequiredOf(TargetOf(schema))[2][i] :
               i \in 1..Len(RequiredOf(TargetOf(schema))[2])}
            \cup {RequiredOf(schema)[2][i] : i \in 1..Len(RequiredOf(schema)[2])}

\* C19: flatten_composites terminates with a schema on every document, those
\* in which a schema reaches itself through $ref or through a composite branch
\* included: no call ends in the interpreter's RecursionError.
C19_FlattenTerminates ==
  op = "flatten_composites" => ~(IsRaise(ret) /\ ret[2][1] = "RecursionError")

\* whether s is a node {$ref: p, ...} whose p resolves to nothing
DanglingNode(s) ==
  IsDict(s) /\ Has(s, k_ref) /\ \E p \in DanglingRefs : Get(s, k_ref) = PyStr(p)

\* C17: in the data dictionary agent a $ref that is not a local pointer, or
\* that resolves to no node of the document, is an error: build_dictionary on
\* a component schema that is such a reference, or has one as a property,
\* fails and returns no rows.
C17_UnresolvedRefIsError ==
  ( /\ op = "build_dictionary"
    /\ \/ DanglingNode(schema)
       \/ /\ IsDict(schema) /\ IsDict(GetOr(schema, k_properties, None))
          /\ \E i \in 1..Len(Get(schema, k_properties)[2]) :
               DanglingNode(Get(schema, k_properties)[2][i][2]) )
  => IsRaise(ret)

(***************************************************************************)
(* Claims about iter_elements                                              *)
(***************************************************************************)
\* the path column of every record, in order
Paths(records) == [i \in 1..Len(records[2]) |-> Get(records[2][i], c_path)[2]]
\* the required column of a record says 'true'
FlaggedRequired(record) == Get(record, k_required) = PyStr(c_true)

\* C3: the required flag of a record is 'true' exactly when the record is a
\* property whose declared name is in the required list of the object schema
\* that declares it.  Stated for an object schema whose properties are leaves:
\* its records are the root's (when base_path is not empty), then one per
\* property in declaration order.
C3_RequiredFromParent ==
  (op = "iter_elements" /\ schema \in ObjectSchemas /\ IsList(ret)) =>
    LET props == GetOr(schema, k_properties, PyDict(<<>>))[2]
        required == GetOr(schema, k_required, PyList(<<>>))[2]
        first == IF base_path = <<>> THEN 0 ELSE 1
    IN /\ Len(ret[2]) >= first + Len(props)
       /\ \A i \in 1..Len(ret[2]) :
            FlaggedRequired(ret[2][i]) <=>
              /\ i > first
              /\ i <= first + Len(props)
              /\ \E j \in 1..Len(required) : required[j] = PyStr(props[i - first][1])

\* C4: flattening {type: array, items: {type: object, properties: {id: ...}}}
\* from path 'list' yields exactly three records, with paths 'list', 'list[]'
\* and 'list[].id' in that order: the array node itself has a record too.
C4_ArrayOfObjects ==
  (op = "iter_elements" /\ schema = ArrayOfObjects /\ base_path = s_list) =>
    /\ IsList(ret)
    /\ Paths(ret) = << s_list, s_list \o <<"[", "]">>,
                       s_list \o <<"[", "]", ".">> \o s_id >>

\* C4 as stated: exactly two records, paths 'list[]' and 'list[].id'
C4_TwoRecords ==
  (op = "iter_elements" /\ schema = ArrayOfObjects /\ base_path = s_list) =>
    /\ IsList(ret)
    /\ Paths(ret) = << s_list \o <<"[", "]">>, s_list \o <<"[", "]", ".">> \o s_id >>

C4_Witness ==
  /\ op = "iter_elements" /\ schema = ArrayOfObjects /\ base_path = s_list
  /\ IsList(ret) /\ Len(ret[2]) = 3
  /\ ~FlaggedRequired(ret[2][1])

\* C5: no two records emitted by one iter_elements call have the same path.
C5_PathsUnique ==
  (op = "iter_elements" /\ IsList(ret)) =>
    \A i, j \in 1..Len(ret[2]) : Paths(ret)[i] = Paths(ret)[j] => i = j

\* a walker over the document that has resolved nothing yet
NewWalker == SchemaWalker(root)

\* the node s as the walk sees it: its composites expanded
Expanded(s) == flatten_composites(NewWalker, s, 1).val

RECURSIVE ConcatAll(_)
ConcatAll(qs) == IF qs = <<>> THEN <<>> ELSE Head(qs) \o ConcatAll(Tail(qs))

\* the nested elements of an expanded node f at path, each <<schema, path>>:
\* the entries of its properties in declaration order, its
\* additionalProperties schema, its items schema or tuple entries
NestedElements(f, path) ==
  (IF IsDict(GetOr(f, k_properties, None))
   THEN [i \in 1..Len(Get(f, k_properties)[2]) |->
           << Get(f, k_properties)[2][i][2],
              IF path = <<>> THEN Get(f, k_properties)[2][i][1]
              ELSE path \o <<".">> \o Get(f, k_properties)[2][i][1] >>]
   ELSE <<>>)
  \o (IF IsDict(GetOr(f, k_additionalProperties, None))
      THEN << <<Get(f, k_additionalProperties), path \o (IF path = <<>> THEN <<"*">> ELSE <<".", "*">>)>> >>
      ELSE <<>>)
  \o (IF IsDict(GetOr(f, k_items, None))
      THEN << <<Get(f, k_items), path \o <<"[", "]">> >> >>
      ELSE IF IsList(GetOr(f, k_items, None))
      THEN [i \in 1..Len(Get(f, k_items)[2]) |->
              <<Get(f, k_items)[2][i], path \o <<"[">> \o IntToStr(i - 1) \o <<"]">> >>]
      ELSE <<>>)

RECURSIVE PreOrder(_, _, _)
\* the paths of the expanded node f and of everything nested in it, n levels
\* deep, each node before its descendants
PreOrder(f, path, n) ==
  IF n = 0 \/ ~IsDict(f) THEN <<path>>
  ELSE <<path>>
       \o ConcatAll([i \in 1..Len(NestedElements(f, path)) |->
                       PreOrder(Expanded(NestedElements(f, path)[i][1]),
                                NestedElements(f, path)[i][2], n - 1)])

\* the paths of the elements nested in the schema walked, and of the schema
\* itself when base_path is not empty
ElementPaths ==
  IF base_path = <<>> THEN Tail(PreOrder(Expanded(schema), base_path, RecursionLimit))
  ELSE PreOrder(Expanded(schema), base_path, RecursionLimit)

\* C24: _walk skips no nested element: every entry of a node's properties, its
\* additionalProperties schema and its items schema (or each tuple entry), at
\* every depth, has exactly one record.
C24_NoElementSkipped ==
  (op = "iter_elements" /\ IsList(ret)) =>
    \A p \in Range(ElementPaths) \cup Range(Paths(ret)) :
      Count(Paths(ret), p) = Count(ElementPaths, p)

\* C25: the records of iter_elements are in pre-order: a node before its
\* descendants, the subtrees of its properties in declaration order, then that
\* of additionalProperties (parent.*), then those of items (parent[] or
\* parent[idx] by index); a child path is parent.name, or name when the parent
\* path is empty.  (An element whose path is empty has no record.)
C25_PreOrder ==
  (op = "iter_elements" /\ IsList(ret)) =>
    Paths(ret) = SelectSeq(ElementPaths, LAMBDA p : p # <<>>)

\* witness of C25: the records of the nested object walked from 'a'
C25_Witness ==
  /\ op = "iter_elements" /\ schema = NestedObject /\ base_path = <<"a">>
  /\ IsList(ret) /\ Len(ret[2]) = 9
  /\ Paths(ret)[5] = <<"a", ".", "o", "[", "]">>
  /\ Paths(ret)[9] = <<"a", ".", "t", "[", "1", "]", ".", "x">>

\* the branches of the composite key of s, each expanded; none when the key is
\* absent or holds no list
BranchesOf(s, key) ==
  IF IsList(GetOr(s, key, None))
  THEN [i \in 1..Len(Get(s, key)[2]) |-> Expanded(Get(s, key)[2][i])]
  ELSE <<>>

\* the places a key of the expanded s can get a value from, in the order of
\* the claim: the node itself, its allOf, anyOf and oneOf branches
Sources(s) == <<s>> \o BranchesOf(s, k_allOf) \o BranchesOf(s, k_anyOf) \o BranchesOf(s, k_oneOf)

\* the places that give key k a value
SourcesWith(s, k) == SelectSeq(Sources(s), LAMBDA x : IsDict(x) /\ Has(x, k))

\* C26: every value flatten_composites keeps for a key other than enum and
\* required is the value of the first place that has the key, in the order:
\* the node itself, its allOf branches, its anyOf branches, its oneOf branches,
\* the branches of one composite in declaration order.
C26_Precedence ==
  (op = "flatten_composites" /\ IsDict(ret) /\ IsDict(schema) /\ ~Has(schema, k_ref)) =>
    \A i \in 1..Len(ret[2]) :
      ret[2][i][1] \notin {k_enum, k_required} =>
        /\ SourcesWith(schema, ret[2][i][1]) # <<>>
        /\ ret[2][i][2] = Get(SourcesWith(schema, ret[2][i][1])[1], ret[2][i][1])

\* witness of C26: allOf, anyOf and oneOf branches give description, pattern
\* and type different values, the node itself gives none
C26_Witness ==
  /\ op = "flatten_composites" /\ IsDict(ret) /\ schema \in PrecedenceSchemas
  /\ ~Has(schema, k_description)
  /\ Len(SourcesWith(schema, k_description)) = 4
  /\ Len(SourcesWith(schema, k_pattern)) = 2
  /\ Len(SourcesWith(schema, k_type)) = 2
  /\ Get(ret, k_description) = PyStr(<<"a", "1">>)
  /\ Get(ret, k_pattern) = PyStr(<<"p", "2">>)
  /\ Get(ret, k_type) = PyStr(k_string)

(***************************************************************************)
(* Specification SpecCache: any sequence of deref calls on one walker over *)
(* the document, each with an argument of its own                          *)
(***************************************************************************)
\* reference nodes (to a plain node, to a reference node, to a node with a
\* composite, to a cycle, to nothing), each without siblings, with a sibling
\* the target lacks and with siblings the target has; a reference to a node
\* that is no mapping, and a node without $ref
DerefArgs ==
  { PyDict(<< <<k_ref, PyStr(p)>> >> \o sib) :
      p \in {DefsRef(<<"A">>), DefsRef(<<"B">>), DefsRef(<<"D">>), DefsRef(<<"L">>),
             <<"#", "/", "n", "o", "p", "e">>},
      sib \in {<<>>, << <<k_description, PyStr(<<"e">>)>> >>,
               << <<k_type, PyStr(k_string)>>, <<k_enum, StrList(<< <<"y">>, <<"x">> >>)>> >>} }
  \cup { RefTo(DefsRef(<<"A">>) \o <<"/">> \o k_type), LeafString }

InitCache ==
  /\ op = "init"
  /\ root = RootDoc
  /\ ref_cache = PyDict(<<>>)
  /\ schema = None
  /\ base_path = <<>>
  /\ ret = None
  /\ NoMerge /\ NoPointer /\ NoRows /\ NoCli

\* walker.deref(s), after the calls made so far
DerefCall ==
  \E s \in DerefArgs :
    /\ schema' = s
    /\ Returns("deref", deref(Self, s, 1))
    /\ UNCHANGED <<cli_vars, raw_rows, a, b, doc, pointer, base_path>>

NextCache == DerefCall

SpecCache == InitCache /\ [][NextCache]_vars

(***************************************************************************)
(* Claims about the reference cache                                        *)
(***************************************************************************)
RECURSIVE TransitiveTarget(_, _)
\* the node the pointer p names in the document, dereferenced transitively (a
\* target that is itself a reference node is replaced by its own target with
\* its siblings merged over it), following at most n references
TransitiveTarget(p, n) ==
  IF n = 0 THEN Raise("RecursionError")
  ELSE IF ~IsDict(resolve_json_pointer(root, p)) \/ ~Has(resolve_json_pointer(root, p), k_ref)
  THEN resolve_json_pointer(root, p)
  ELSE IF IsRaise(TransitiveTarget(Get(resolve_json_pointer(root, p), k_ref)[2], n - 1))
  THEN TransitiveTarget(Get(resolve_json_pointer(root, p), k_ref)[2], n - 1)
  ELSE conservative_merge(
         TransitiveTarget(Get(resolve_json_pointer(root, p), k_ref)[2], n - 1),
         PyDict(SelectPairs(resolve_json_pointer(root, p)[2],
                            Keys(resolve_json_pointer(root, p)) \ {k_ref})))

ErrorRef == <<"#", "/", "c", "o", "m", "p", "o", "n", "e", "n", "t", "s", "/", "s", "c", "h", "e", "m", "a", "s", "/", "E">>
k_schema == <<"s", "c", "h", "e", "m", "a">>

\* properties of an error schema: a code with an enum, a message, an array
\* of E, a plain reference to E, an object with a property that is E, and an
\* array of objects
ErrorProps ==
  { <<<<"c", "o", "d", "e">>, PyDict(<< <<k_type, PyStr(k_string)>>,
                          <<k_enum, StrList(<<<<"E", "1">>, <<"E", "2">>>>)>>,
                          <<k_example, PyStr(<<"E", "1">>)>> >>)>>,
    <<<<"m", "e", "s", "s", "a", "g", "e">>, PyDict(<< <<k_type, PyStr(k_string)>>,
                             <<k_description, PyStr(<<" ", "w", "h", "y", " ">>)>> >>)>>,
    <<<<"e", "r", "r", "o", "r", "s">>, PyDict(<< <<k_type, PyStr(k_array)>>, <<k_items, RefTo(ErrorRef)>> >>)>>,
    <<<<"c", "a", "u", "s", "e">>, RefTo(ErrorRef)>>,
    <<<<"i", "n", "n", "e", "r">>, PyDict(<< <<k_type, PyStr(k_object)>>,
                           <<k_properties,
                             PyDict(<< <<<<"s", "e", "l", "f">>, RefTo(ErrorRef)>> >>)>> >>)>>,
    <<<<"d", "e", "t", "a", "i", "l", "s">>,
      PyDict(<< <<k_type, PyStr(k_array)>>,
                <<k_items,
                  PyDict(<< <<k_type, PyStr(k_object)>>,
                            <<k_properties,
                              PyDict(<< <<<<"s", "t", "a", "t", "u", "s", "_", "c", "o", "d", "e">>,
                                          PyDict(<< <<k_type, PyStr(k_integer)>>,
                                                    <<k_default, PyInt(7)>> >>)>> >>)>> >>)>> >>)>> }

ErrorSchemas ==
  { PyDict(<< <<k_type, PyStr(k_object)>>, <<k_description, PyStr(<<"a", "n", " ", "e", "r", "r", "o", "r">>)>>,
              <<k_properties, PyDict(ps)>> >>) :
      ps \in {q \in SeqsUpTo(ErrorProps, MaxProps) :
                \A i, j \in 1..Len(q) : i # j => q[i][1] # q[j][1]} }

ErrorDoc(e) ==
  PyDict(<< <<k_components, PyDict(<< <<k_schemas, PyDict(<< <<<<"E">>, e>> >>)>> >>)>>,
            <<k_schema, RefTo(ErrorRef)>> >>)

InitErrors ==
  /\ op = "init"
  /\ doc \in {ErrorDoc(e) : e \in ErrorSchemas}
  /\ pointer \in {<<k_schema>>, <<k_components, k_schemas, <<"E">>>>}
  /\ schema = At(doc, pointer)
  /\ root = None /\ ref_cache = PyDict(<<>>) /\ base_path = <<>>
  /\ ret = None
  /\ NoMerge /\ NoRows /\ NoCli

\* extract_codes_msgs_enums_from_schema(schema, doc)
ExtractCodes ==
  /\ op = "init"
  /\ op' = "extract_codes_msgs_enums_from_schema"
  /\ ret' = extract_codes_msgs_enums_from_schema(DocNode(pointer), doc, 1)
  /\ UNCHANGED <<cli_vars, raw_rows, a, b, doc, pointer, root, ref_cache, schema, base_path>>

NextErrors == ExtractCodes

SpecErrors == InitErrors /\ [][NextErrors]_vars

(***************************************************************************)
(* Claims about the HTTP error extractor                                   *)
(***************************************************************************)
\* C30: extract_codes_msgs_enums_from_schema terminates for every finite
\* document, response schemas that reference themselves through $ref inside
\* object-typed properties or array items included: the call returns its
\* three lists and does not end in RecursionError
C30_ExtractTerminates ==
  op = "extract_codes_msgs_enums_from_schema" => ~IsRaise(ret)

====
